---- MODULE Spec2Model ----
(***************************************************************************)
(* MoveCRM backend: quote numbering, rate limiting, quote pricing and the  *)
(* detection-job orchestration, as implemented under src/backend/src.      *)
(*                                                                         *)
(* The persisted state is the content of the database tables (quotes,      *)
(* quote_items, quote_media, pricing_rules, users, detection_jobs,         *)
(* rate_limits).  A request that reads and later commits is split at the   *)
(* points where other requests can interleave (READ COMMITTED).            *)
(***************************************************************************)
EXTENDS Integers, Sequences, FiniteSets, TLC

(***************************************************************************)
(* Bounds of the model.                                                    *)
(***************************************************************************)
NumReqs == 3
NumCalls == 4
NumConc == 3
MaxQuotes == 2
MaxItems == 1
MaxJobs == 1
MaxSubmits == 1
NumRuleReqs == 2
NumItemReqs == 2
MaxItemIds == 3
MaxRules == 4
MaxTick == 1
MaxHour == 1
MaxRequestsArg == 2
StartYear == 2026
StartMonth == 11
HighSeed == 9998

Tenants == {1, 2}
Reqs == 1..NumReqs
Calls == 1..NumConc
NoTenant == 0

(***************************************************************************)
(* Strings are sequences of character codes: a decimal digit is its value, *)
(* the letter Q is QCh (above every digit, as in ASCII).                   *)
(***************************************************************************)
QCh == 81
SeqWidth == 4
MonthWidth == 2

RECURSIVE Digits(_)
Digits(n) == IF n < 10 THEN <<n>> ELSE Append(Digits(n \div 10), n % 10)

RECURSIVE ZeroPad(_, _)
ZeroPad(ds, w) == IF Len(ds) >= w THEN ds ELSE ZeroPad(<<0>> \o ds, w)

RECURSIVE ParseInt(_)
ParseInt(ds) ==
    IF ds = <<>> THEN 0
    ELSE 10 * ParseInt(SubSeq(ds, 1, Len(ds) - 1)) + ds[Len(ds)]

StartsWith(s, pfx) ==
    /\ Len(s) >= Len(pfx)
    /\ SubSeq(s, 1, Len(pfx)) = pfx

\* s < t in the order of ORDER BY on a string column.
StrLess(s, t) ==
    \/ /\ Len(s) < Len(t)
       /\ SubSeq(t, 1, Len(s)) = s
    \/ \E i \in 1..Len(s) :
          /\ i <= Len(t)
          /\ SubSeq(s, 1, i - 1) = SubSeq(t, 1, i - 1)
          /\ s[i] < t[i]

(***************************************************************************)
(* The wall clock, in months since StartYear-StartMonth (datetime.now()).  *)
(***************************************************************************)
YearAt(tick) == StartYear + ((StartMonth - 1 + tick) \div 12)
MonthAt(tick) == ((StartMonth - 1 + tick) % 12) + 1

\* f"Q{now.year}{now.month:02d}"
Prefix(tick) == <<QCh>> \o Digits(YearAt(tick)) \o ZeroPad(Digits(MonthAt(tick)), MonthWidth)

VARIABLES
    clock,      \* months elapsed (datetime.now())
    quotes,     \* table quotes
    items,      \* table quote_items
    catalog,    \* table item_catalog, in the order a query returns its rows
    media,      \* table quote_media
    jobs,       \* table detection_jobs
    customers,  \* table users, the rows with role customer
    rules,      \* table pricing_rules
    rate,       \* table rate_limits: the committed rows
    hour,       \* hours elapsed: the rate limiter's window_start
    creq,       \* quote-creation requests in flight
    dreq,       \* detection requests in flight
    preq,       \* pricing-rule requests in flight
    ireq,       \* line-item requests in flight
    resp,       \* the response to the last staff request on a quote or job
    rlreq,      \* concurrent check_rate_limit calls: in flight, or returned
    rlog        \* sequential check_rate_limit calls, in the order made

vars == <<clock, quotes, items, media, jobs, customers, rules, catalog, rate, hour,
          creq, dreq, preq, ireq, resp, rlreq, rlog>>

(***************************************************************************)
(* utils/rate_limiter.py                                                   *)
(***************************************************************************)
RATE_LIMIT_MAX_REQUESTS == 100

\* Client addresses as they arrive (REMOTE_ADDR or the X-Forwarded-For header).
\* The last one is a forwarding chain, which ipaddress.ip_address rejects.
RawIps == {"::1", "0:0:0:0:0:0:0:1", "10.0.0.1, 10.0.0.2"}
ValidIp(ip) == ip \in {"::1", "0:0:0:0:0:0:0:1"}

\* str(ipaddress.ip_address(ip_address)), or ip_address itself on ValueError
NormalizeIp(ip) == IF ip = "0:0:0:0:0:0:0:1" THEN "::1" ELSE ip

\* The endpoints that are rate limited, and the max_requests argument each
\* passes: 0 stands for None (submit_quote passes none).
PublicQuote == "/public/quote"
Limited == "/limited"
Endpoints == {PublicQuote, Limited}
MaxArg(endpoint) == IF endpoint = PublicQuote THEN 0 ELSE MaxRequestsArg

\* max_requests = max_requests or RATE_LIMIT_MAX_REQUESTS
EffectiveMax(arg) == IF arg = 0 THEN RATE_LIMIT_MAX_REQUESTS ELSE arg

\* RateLimit.query.filter_by(tenant_id, ip_address, endpoint, window_start)
RlRowsAnyEndpoint(table, t, nip, ep, w) ==
    {r \in table : /\ r.tenant_id = t
                   /\ r.ip_address = nip
                   /\ r.window_start = w}

RlRows(table, t, nip, ep, w) ==
    {r \in table : /\ r.tenant_id = t
                   /\ r.ip_address = nip
                   /\ r.endpoint = ep
                   /\ r.window_start = w}

\* .first(): the row's request_count, 0 when there is no row
RlSnapshot(table, t, nip, ep, w) ==
    IF RlRows(table, t, nip, ep, w) = {} THEN 0
    ELSE (CHOOSE r \in RlRows(table, t, nip, ep, w) : TRUE).request_count

RlDeniedAbove(snap, max) == snap # 0 /\ snap > max

\* if rate_limit.request_count >= max_requests: return False
RlDenied(snap, max) == snap # 0 /\ snap >= max

\* The unique constraint on (tenant_id, ip_address, endpoint, window_start).
RlUniqueViolation(table, t, nip, ep, w) == RlRows(table, t, nip, ep, w) # {}

\* The write of an allowed call that read `snap`: the INSERT of a new row
\* (refused by the unique constraint when the key has a row by now) or the
\* UPDATE that sets request_count to the value computed from the read.
RlWriteTable(table, t, nip, ep, w, snap) ==
    IF snap = 0
    THEN IF RlUniqueViolation(table, t, nip, ep, w) THEN table
         ELSE table \cup {[tenant_id |-> t, ip_address |-> nip, endpoint |-> ep,
                           window_start |-> w, request_count |-> 1]}
    ELSE {IF r \in RlRows(table, t, nip, ep, w)
          THEN [r EXCEPT !.request_count = snap + 1] ELSE r : r \in table}

ExceptReturnsFalse == FALSE

\* except Exception as e: ... return True
ExceptReturns == TRUE

\* One whole call with nothing interleaved: the table after it.
RlCallTable(table, t, ip, ep, w) ==
    LET nip == NormalizeIp(ip)
        snap == RlSnapshot(table, t, nip, ep, w)
    IN IF ~ValidIp(ip) \/ RlDenied(snap, EffectiveMax(MaxArg(ep))) THEN table
       ELSE RlWriteTable(table, t, nip, ep, w, snap)

\* One whole call with nothing interleaved: the value returned.  The query
\* raises on an address that is no INET value, and the handler returns True.
RlCallAllowed(table, t, ip, ep, w) ==
    IF ~ValidIp(ip) THEN ExceptReturns
    ELSE ~RlDenied(RlSnapshot(table, t, NormalizeIp(ip), ep, w), EffectiveMax(MaxArg(ep)))

RlEntry(t, ip, ep, w, allowed) ==
    [tenant_id |-> t, ip |-> ip, nip |-> NormalizeIp(ip), endpoint |-> ep,
     window_start |-> w, allowed |-> allowed]

(***************************************************************************)
(* Quantities.  Cubic feet, hours, miles and the rates are held in tenths, *)
(* money in units of 0.00001 (so that subtotal x 0.085 is exact); Null is  *)
(* SQL NULL / None.                                                        *)
(***************************************************************************)
Null == -1
MoneyPerCent == 1000
Truthy(x) == x # Null /\ x # 0

\* A Numeric(10, 2) column keeps two decimals, rounding half up.
Numeric2(x) == ((x + (MoneyPerCent \div 2)) \div MoneyPerCent) * MoneyPerCent

\* Decimal('0.085'), in thousandths
TaxRateMilli == 85

CubicFeetOfOne(item) == IF Truthy(item.cubic_feet) THEN item.cubic_feet ELSE 0
CubicFeetOf(item) == IF Truthy(item.cubic_feet) THEN item.cubic_feet * item.quantity ELSE 0
LaborHoursOf(item) == IF Truthy(item.labor_hours) THEN item.labor_hours * item.quantity ELSE 0

\* for item in quote.quote_items: total_cubic_feet += ...
RECURSIVE TotalCubicFeet(_)
TotalCubicFeet(its) ==
    IF its = {} THEN 0
    ELSE LET item == CHOOSE i \in its : TRUE
         IN CubicFeetOf(item) + TotalCubicFeet(its \ {item})

\* for item in quote.quote_items: total_labor_hours += ...
RECURSIVE TotalLaborHours(_)
TotalLaborHours(its) ==
    IF its = {} THEN 0
    ELSE LET item == CHOOSE i \in its : TRUE
         IN LaborHoursOf(item) + TotalLaborHours(its \ {item})

MinOf(a, b) == IF a < b THEN a ELSE b
MaxOf(a, b) == IF a < b THEN b ELSE a

\* calculate_quote_pricing: the five totals it assigns to the quote.  Tenths
\* times tenths are cents.
\* cubic_feet_cost + labor_cost + distance_cost, before the minimum charge
ComputedCost(its, distance_miles, rule) ==
    LET cubic_feet_cost == TotalCubicFeet(its) * rule.rate_per_cubic_foot * MoneyPerCent
        labor_cost == TotalLaborHours(its) * rule.labor_rate_per_hour * MoneyPerCent
        distance_cost ==
            IF Truthy(distance_miles) /\ Truthy(rule.distance_rate_per_mile)
            THEN distance_miles * rule.distance_rate_per_mile * MoneyPerCent
            ELSE 0
    IN cubic_feet_cost + labor_cost + distance_cost

\* The sum of item.total_price goes to a local the function never reads.
CalculateQuotePricing(its, distance_miles, rule) ==
    LET total_cubic_feet == TotalCubicFeet(its)
        total_labor_hours == TotalLaborHours(its)
        calculated_subtotal ==
            MaxOf(ComputedCost(its, distance_miles, rule),
                  rule.minimum_charge * 10 * MoneyPerCent)
        \* subtotal * 0.085: the subtotal is whole cents, MoneyPerCent = 1000
        tax_amount == (calculated_subtotal \div MoneyPerCent) * TaxRateMilli
    IN [total_cubic_feet |-> total_cubic_feet,
        total_labor_hours |-> total_labor_hours,
        subtotal |-> calculated_subtotal,
        tax_amount |-> tax_amount,
        total_amount |-> calculated_subtotal + tax_amount]

\* The totals as the quotes row holds them after the commit.
StoredTotals(tot) ==
    [total_cubic_feet |-> tot.total_cubic_feet,
     total_labor_hours |-> tot.total_labor_hours,
     subtotal |-> Numeric2(tot.subtotal),
     tax_amount |-> Numeric2(tot.tax_amount),
     total_amount |-> Numeric2(tot.total_amount)]

\* The column defaults of a quote that was never priced.
ZeroTotals ==
    [total_cubic_feet |-> 0, total_labor_hours |-> 0, subtotal |-> 0,
     tax_amount |-> 0, total_amount |-> 0]

TotalsOf(q) ==
    [total_cubic_feet |-> q.total_cubic_feet,
     total_labor_hours |-> q.total_labor_hours,
     subtotal |-> q.subtotal,
     tax_amount |-> q.tax_amount,
     total_amount |-> q.total_amount]

WithTotals(q, tot) ==
    [q EXCEPT !.total_cubic_feet = tot.total_cubic_feet,
              !.total_labor_hours = tot.total_labor_hours,
              !.subtotal = tot.subtotal,
              !.tax_amount = tot.tax_amount,
              !.total_amount = tot.total_amount]

(***************************************************************************)
(* Names and labels are sequences of characters.                           *)
(***************************************************************************)
LowerCh(c) ==
    CASE c = "S" -> "s" [] c = "C" -> "c" [] c = "B" -> "b" [] c = "T" -> "t"
      [] OTHER -> c

\* str.lower()
Lower(s) == [i \in 1..Len(s) |-> LowerCh(s[i])]

\* a in b, for strings
Contains(b, a) ==
    \E i \in 0..(Len(b) - Len(a)) : SubSeq(b, i + 1, i + Len(a)) = a

Sofa == <<"S", "o", "f", "a">>
Couch == <<"C", "o", "u", "c", "h">>
LowCouch == <<"c", "o", "u", "c", "h">>
SofaBed == <<"s", "o", "f", "a", "b", "e", "d">>
Box == <<"B", "o", "x">>
Table == <<"T", "a", "b", "l", "e">>

(***************************************************************************)
(* Table item_catalog, as seeded: rows in insertion order.                 *)
(***************************************************************************)
Catalog ==
    << [id |-> 1, tenant_id |-> 1, name |-> Sofa, aliases |-> <<Couch, SofaBed>>,
        category |-> "Furniture", base_cubic_feet |-> 350, labor_multiplier |-> 12,
        is_active |-> TRUE],
       [id |-> 2, tenant_id |-> 1, name |-> Box, aliases |-> <<>>,
        category |-> "Boxes", base_cubic_feet |-> 30, labor_multiplier |-> 10,
        is_active |-> TRUE],
       [id |-> 3, tenant_id |-> 2, name |-> Table, aliases |-> <<LowCouch>>,
        category |-> "Furniture", base_cubic_feet |-> 200, labor_multiplier |-> 10,
        is_active |-> TRUE] >>

CatalogIds == {catalog[i].id : i \in 1..Len(catalog)}
CatalogRow(id) == catalog[CHOOSE i \in 1..Len(catalog) : catalog[i].id = id]

\* base_cubic_feet * labor_multiplier / 10, in tenths of an hour
CatalogLaborHours(c) == (c.base_cubic_feet * c.labor_multiplier) \div 100

\* ItemCatalog.query.filter(tenant_id == t, aliases.any(name)).first():
\* the first row one of whose aliases equals `name` (= ANY compares exactly).
AliasRows(t, name) ==
    {i \in 1..Len(catalog) :
        /\ catalog[i].tenant_id = t
        /\ \E k \in 1..Len(catalog[i].aliases) : catalog[i].aliases[k] = name}

FirstByAlias(t, name) ==
    IF AliasRows(t, name) = {} THEN Null
    ELSE catalog[CHOOSE i \in AliasRows(t, name) : \A j \in AliasRows(t, name) : i <= j].id

CatalogByIdAnyTenant(t, id) == IF id \in CatalogIds THEN id ELSE Null

\* ItemCatalog.query.filter_by(id=catalog_item_id, tenant_id=t).first()
CatalogById(t, id) ==
    IF id \in CatalogIds /\ CatalogRow(id).tenant_id = t THEN id ELSE Null

(***************************************************************************)
(* Table pricing_rules.                                                    *)
(***************************************************************************)
SampleRule(t) ==
    [id |-> t, tenant_id |-> t, rate_per_cubic_foot |-> 85,
     labor_rate_per_hour |-> 850, minimum_charge |-> 1500,
     distance_rate_per_mile |-> 25, is_default |-> TRUE, is_active |-> TRUE]

\* PricingRule.query.filter_by(tenant_id=t, is_default=True, is_active=True)
DefaultRules(t) ==
    {r \in rules : r.tenant_id = t /\ r.is_default /\ r.is_active}

RuleById(id) == CHOOSE r \in rules : r.id = id
HasRule(id) == \E r \in rules : r.id = id

(***************************************************************************)
(* generate_quote_number (routes/quotes.py and routes/public.py: the same  *)
(* code twice).                                                            *)
(***************************************************************************)
\* Quote.query.filter(tenant_id == t, quote_number.like(prefix + "%"))
NumberedRows(t, prefix) ==
    {q \in quotes : q.tenant_id = t /\ StartsWith(q.quote_number, prefix)}

\* .order_by(Quote.quote_number.desc()).first()
LatestQuote(t, prefix) ==
    CHOOSE q \in NumberedRows(t, prefix) :
        \A o \in NumberedRows(t, prefix) : ~StrLess(q.quote_number, o.quote_number)

GenerateQuoteNumber(t) ==
    LET prefix == Prefix(clock)
        latest == LatestQuote(t, prefix).quote_number
        sequence ==
            IF NumberedRows(t, prefix) = {} THEN 1
            ELSE IF Len(latest) = Len(prefix) THEN 1
            ELSE ParseInt(SubSeq(latest, Len(prefix) + 1, Len(latest))) + 1
    IN prefix \o ZeroPad(Digits(sequence), SeqWidth)

\* quote_number = db.Column(db.String(50), unique=True): unique over the
\* whole table, whatever the tenant.
NoUniqueViolation(number) == FALSE

UniqueViolation(number) == \E q \in quotes : q.quote_number = number

\* uuid4 primary keys: a fresh id.
NewQuoteId == Cardinality(quotes) + 1

NewQuote(id, t, number, distance, ruleId, tot) ==
    [id |-> id, tenant_id |-> t, quote_number |-> number, status |-> "pending",
     distance_miles |-> distance, pricing_rule_id |-> ruleId,
     total_cubic_feet |-> tot.total_cubic_feet,
     total_labor_hours |-> tot.total_labor_hours,
     subtotal |-> tot.subtotal, tax_amount |-> tot.tax_amount,
     total_amount |-> tot.total_amount]

(***************************************************************************)
(* map_detections_to_catalog (routes/detection.py).  A match is            *)
(* [item |-> catalog id or Null, score |-> best_match_score in hundredths, *)
(* stop |-> the loop over the catalog was left by break].                  *)
(***************************************************************************)
NoMatch == [item |-> Null, score |-> 0, stop |-> FALSE]

RECURSIVE AliasLoopLast(_, _, _, _)
AliasLoopLast(entry, k, dn, m) ==
    IF k > Len(entry.aliases) THEN m
    ELSE LET alias == Lower(entry.aliases[k])
         IN IF alias = dn
            THEN [m EXCEPT !.item = entry.id, !.score = 90]
            ELSE IF Contains(alias, dn) \/ Contains(dn, alias)
            THEN AliasLoopLast(entry, k + 1, dn,
                               [m EXCEPT !.item = entry.id, !.score = 70])
            ELSE AliasLoopLast(entry, k + 1, dn, m)

\* The loop over one entry's aliases, from alias k on.
RECURSIVE AliasLoop(_, _, _, _)
AliasLoop(entry, k, dn, m) ==
    IF k > Len(entry.aliases) THEN m
    ELSE LET alias == Lower(entry.aliases[k])
         IN IF alias = dn
            THEN [m EXCEPT !.item = entry.id, !.score = 90]
            ELSE IF Contains(alias, dn) \/ Contains(dn, alias)
            THEN AliasLoop(entry, k + 1, dn,
                           IF m.score < 70
                           THEN [m EXCEPT !.item = entry.id, !.score = 70]
                           ELSE m)
            ELSE AliasLoop(entry, k + 1, dn, m)

\* The loop over the tenant's active catalog rows, from row i on.
RECURSIVE EntryLoop(_, _, _, _)
EntryLoop(t, i, dn, m) ==
    IF i > Len(catalog) \/ m.stop THEN m
    ELSE LET entry == catalog[i]
         IN IF entry.tenant_id # t \/ ~entry.is_active
            THEN EntryLoop(t, i + 1, dn, m)
            ELSE IF Lower(entry.name) = dn
            THEN [item |-> entry.id, score |-> 100, stop |-> TRUE]
            ELSE EntryLoop(t, i + 1, dn, AliasLoop(entry, 1, dn, m))

BestMatch(t, name) == EntryLoop(t, 1, Lower(name), NoMatch)

MappedItem(t, detection) ==
    LET id == BestMatch(t, detection.name).item
    IN [detected_name |-> detection.name,
        confidence_score |-> detection.confidence,
        quantity |-> detection.quantity,
        catalog_item_id |-> id,
        cubic_feet |-> IF id # Null /\ Truthy(CatalogRow(id).base_cubic_feet)
                       THEN CatalogRow(id).base_cubic_feet ELSE Null,
        category |-> IF id # Null THEN CatalogRow(id).category ELSE "Unknown"]

MapDetectionsToCatalog(detections, t) ==
    [i \in 1..Len(detections) |-> MappedItem(t, detections[i])]

(***************************************************************************)
(* What the vision service can answer (call_yoloe_service).  Confidence is *)
(* in hundredths; Null is a JSON null.                                     *)
(***************************************************************************)
Det(name, confidence, quantity) ==
    [name |-> name, confidence |-> confidence, quantity |-> quantity]

VisionResults ==
    { [kind |-> "success", detections |-> <<Det(Sofa, 90, 1)>>, error |-> ""],
      [kind |-> "success", detections |-> <<Det(Couch, 75, 2)>>, error |-> ""],
      [kind |-> "success", detections |-> <<Det(Sofa, 90, 1), Det(Box, Null, 1)>>,
       error |-> ""],
      [kind |-> "failure", detections |-> <<>>, error |-> "no objects found"],
      [kind |-> "raise", detections |-> <<>>, error |-> "YOLOE service error: timeout"] }

\* if item['catalog_item_id'] and item['confidence_score'] > threshold:
\* the comparison of None with a float raises TypeError.
CompareRaises(m) == m.catalog_item_id # Null /\ m.confidence_score = Null
Qualifies(m, threshold) ==
    m.catalog_item_id # Null /\ m.confidence_score # Null /\ m.confidence_score > threshold

TextThreshold == 70
AutoThreshold == 80
Threshold(job_type) == IF job_type = "text" THEN TextThreshold ELSE AutoThreshold

\* The mapped items before the first one whose comparison raises.
RECURSIVE BeforeRaise(_, _)
BeforeRaise(mapped, i) ==
    IF i > Len(mapped) \/ CompareRaises(mapped[i]) THEN <<>>
    ELSE <<mapped[i]>> \o BeforeRaise(mapped, i + 1)

LoopRaises(mapped) == \E i \in 1..Len(mapped) : CompareRaises(mapped[i])

\* The mapped items the loop adds to the session, in order.
ToAdd(mapped, threshold) ==
    SelectSeq(BeforeRaise(mapped, 1), LAMBDA m : Qualifies(m, threshold))

\* detect_text adds items only with data['auto_add_items']; detect_auto always.
AddsItems(job_type, auto_add) == job_type = "auto" \/ auto_add

(***************************************************************************)
(* Initial state: the tenants exist, each with its default pricing rule    *)
(* and its catalog; no quote, job or counter yet.                          *)
(***************************************************************************)
Email == "a@example.com"

\* The answer of the last staff or public request handled to its end.
Answer(code, error) == [code |-> code, error |-> error]
NoAnswer == Answer(0, "")

IdleCreate == [pc |-> "idle", kind |-> "none", tenant |-> NoTenant,
               number |-> <<>>, rule |-> Null, conflict |-> NoTenant]
ItemReqs == 1..NumItemReqs
IdleItem == [pc |-> "idle", op |-> "none", quote |-> 0, loaded |-> ZeroTotals,
             totals |-> ZeroTotals, item |-> 0, row |-> {}]
RuleReqs == 1..NumRuleReqs
IdleRule == [pc |-> "idle", op |-> "none", tenant |-> NoTenant, id |-> 0,
             is_default |-> FALSE, writes |-> FALSE, snap |-> {}, cleared |-> {}]
IdleCall == [pc |-> "idle", tenant |-> NoTenant, ip |-> "", endpoint |-> "",
             window |-> <<0, 0>>, snap |-> 0, allowed |-> FALSE]

\* Tenant 2 holds a priced quote without items from the month before.
SeedQuote ==
    NewQuote(1, 2, Prefix(0 - 1) \o ZeroPad(Digits(1), SeqWidth), 0, 2,
             StoredTotals(CalculateQuotePricing({}, 0, SampleRule(2))))

Init ==
    /\ clock = 0
    /\ hour = 0
    /\ quotes = {SeedQuote}
    /\ items = {}
    /\ media = {}
    /\ jobs = {}
    /\ customers = {}
    /\ rules = {SampleRule(t) : t \in Tenants}
    /\ catalog = Catalog
    /\ rate = {}
    /\ creq = [p \in Reqs |-> IdleCreate]
    /\ dreq = <<>>
    /\ preq = [p \in RuleReqs |-> IdleRule]
    /\ ireq = [p \in ItemReqs |-> IdleItem]
    /\ resp = NoAnswer
    /\ rlreq = [c \in Calls |-> IdleCall]
    /\ rlog = <<>>

\* window_start = now.replace(minute=0, second=0, microsecond=0)
WindowStart == <<clock, hour>>

\* The first of a month.
TickMonth ==
    /\ clock < MaxTick
    /\ clock' = clock + 1
    /\ UNCHANGED <<catalog, ireq, quotes, items, media, jobs, customers, rules, rate, hour,
                   creq, dreq, preq, resp, rlreq, rlog>>

\* The top of an hour.
TickHour ==
    /\ hour < MaxHour
    /\ hour' = hour + 1
    /\ UNCHANGED <<catalog, ireq, clock, quotes, items, media, jobs, customers, rules, rate,
                   creq, dreq, preq, resp, rlreq, rlog>>

(***************************************************************************)
(* check_rate_limit, called on its own.                                    *)
(***************************************************************************)
\* A whole call, nothing interleaved.
CheckRateLimit(t, ip, ep) ==
    /\ Len(rlog) < NumCalls
    /\ rate' = RlCallTable(rate, t, ip, ep, WindowStart)
    /\ rlog' = Append(rlog, RlEntry(t, ip, ep, WindowStart,
                                    RlCallAllowed(rate, t, ip, ep, WindowStart)))
    /\ UNCHANGED <<catalog, ireq, clock, quotes, items, media, jobs, customers, rules, hour,
                   creq, dreq, preq, resp, rlreq>>

\* Calls start in the order of their numbers.
MayStart(c) == IF c = 1 THEN TRUE ELSE rlreq[c - 1].pc # "idle"

\* The call up to its query: the row is read (or found missing); a call that
\* returns without writing (the query raised, or the limit is reached) ends.
RlRead(c, t, ip, ep) ==
    /\ rlreq[c].pc = "idle"
    /\ MayStart(c)
    /\ LET w == WindowStart
           snap == RlSnapshot(rate, t, NormalizeIp(ip), ep, w)
           ends == ~ValidIp(ip) \/ RlDenied(snap, EffectiveMax(MaxArg(ep)))
       IN rlreq' = [rlreq EXCEPT ![c] =
                       [pc |-> IF ends THEN "returned" ELSE "read",
                        tenant |-> t, ip |-> ip, endpoint |-> ep,
                        window |-> w, snap |-> snap,
                        allowed |-> ~ValidIp(ip) /\ ExceptReturns]]
    /\ UNCHANGED <<catalog, ireq, clock, quotes, items, media, jobs, customers, rules, rate, hour,
                   creq, dreq, preq, resp, rlog>>

\* The rest of the call: the INSERT or the UPDATE, the commit, return True
\* (also from the except clause, when the INSERT hits the unique constraint).
RlWrite(c) ==
    /\ rlreq[c].pc = "read"
    /\ LET r == rlreq[c]
       IN rate' = RlWriteTable(rate, r.tenant, NormalizeIp(r.ip), r.endpoint,
                               r.window, r.snap)
    /\ rlreq' = [rlreq EXCEPT
                    ![c].pc = "returned",
                    ![c].allowed =
                        IF rlreq[c].snap = 0 /\ RlUniqueViolation(rate, rlreq[c].tenant,
                               NormalizeIp(rlreq[c].ip), rlreq[c].endpoint, rlreq[c].window)
                        THEN ExceptReturns ELSE TRUE]
    /\ UNCHANGED <<catalog, ireq, clock, quotes, items, media, jobs, customers, rules, hour,
                   creq, dreq, preq, resp, rlog>>

\* The database is unreachable when the call queries: the query raises.
RlQueryFails(c, t, ip, ep) ==
    /\ rlreq[c].pc = "idle"
    /\ MayStart(c)
    /\ rlreq' = [rlreq EXCEPT ![c] =
                    [pc |-> "returned", tenant |-> t, ip |-> ip, endpoint |-> ep,
                     window |-> WindowStart, snap |-> 0, allowed |-> ExceptReturns]]
    /\ UNCHANGED <<catalog, ireq, clock, quotes, items, media, jobs, customers, rules, rate, hour,
                   creq, dreq, preq, resp, rlog>>

\* The database is unreachable when the call commits: nothing is written.
RlCommitFails(c) ==
    /\ rlreq[c].pc = "read"
    /\ rlreq' = [rlreq EXCEPT ![c].pc = "returned", ![c].allowed = ExceptReturns]
    /\ UNCHANGED <<catalog, ireq, clock, quotes, items, media, jobs, customers, rules, rate, hour,
                   creq, dreq, preq, resp, rlog>>

NextRateSeq ==
    \/ TickHour
    \/ \E t \in Tenants, ip \in RawIps, ep \in Endpoints : CheckRateLimit(t, ip, ep)

SpecRateSeq == Init /\ [][NextRateSeq]_vars

NextRate ==
    \/ TickHour
    \/ \E c \in Calls, t \in Tenants, ip \in RawIps, ep \in Endpoints : RlRead(c, t, ip, ep)
    \/ \E c \in Calls : RlWrite(c)

SpecRate == Init /\ [][NextRate]_vars

\* The concurrent calls, with a database that can be unreachable.
NextRateFail ==
    \/ \E c \in Calls, t \in Tenants, ip \in RawIps, ep \in Endpoints : RlRead(c, t, ip, ep)
    \/ \E c \in Calls : RlWrite(c)
    \/ \E c \in Calls, t \in Tenants, ip \in RawIps, ep \in Endpoints :
          RlQueryFails(c, t, ip, ep)
    \/ \E c \in Calls : RlCommitFails(c)

SpecRateFail == Init /\ [][NextRateFail]_vars

(***************************************************************************)
(* Quote creation as concurrent requests: staff create_quote               *)
(* (routes/quotes.py) and public submit_quote (routes/public.py), each     *)
(* split between generate_quote_number's read and the INSERT and commit.   *)
(* The requests carry no items, no distance and no files.                  *)
(***************************************************************************)
CreateUnchanged == UNCHANGED <<catalog, ireq, clock, hour, items, media, jobs, rules, dreq, preq, resp, rlreq, rlog>>

Ended(p, pc) == creq' = [creq EXCEPT ![p].pc = pc]

\* Requests start in the order of their numbers.
MayBegin(p) == IF p = 1 THEN TRUE ELSE creq[p - 1].pc # "idle"

\* create_quote up to the Quote(...) constructor.
StaffBegin(p, t) ==
    /\ creq[p].pc = "idle"
    /\ MayBegin(p)
    /\ IF DefaultRules(t) = {}
       THEN Ended(p, "rejected")
       ELSE creq' = [creq EXCEPT ![p] =
                        [pc |-> "generated", kind |-> "staff", tenant |-> t,
                         number |-> GenerateQuoteNumber(t),
                         rule |-> (CHOOSE r \in DefaultRules(t) : TRUE).id,
                         conflict |-> NoTenant]]
    /\ UNCHANGED <<quotes, customers, rate>>
    /\ CreateUnchanged

\* submit_quote up to the Quote(...) constructor.  check_rate_limit commits
\* its counter before the fields are validated; when its query raised, the
\* session's transaction stays aborted and the next query of the handler
\* raises: 500.
PublicBegin(p, slug, ip, fieldsOk) ==
    /\ creq[p].pc = "idle"
    /\ MayBegin(p)
    /\ IF slug = NoTenant
       THEN Ended(p, "rejected") /\ UNCHANGED rate
       ELSE /\ rate' = RlCallTable(rate, slug, ip, PublicQuote, WindowStart)
            /\ IF ~RlCallAllowed(rate, slug, ip, PublicQuote, WindowStart)
               THEN Ended(p, "rejected")
               ELSE IF ~fieldsOk
               THEN Ended(p, "rejected")
               ELSE IF ~ValidIp(ip)
               THEN Ended(p, "failed")
               ELSE IF DefaultRules(slug) = {}
               THEN Ended(p, "rejected")
               ELSE creq' = [creq EXCEPT ![p] =
                                [pc |-> "generated", kind |-> "public", tenant |-> slug,
                                 number |-> GenerateQuoteNumber(slug),
                                 rule |-> (CHOOSE r \in DefaultRules(slug) : TRUE).id,
                                 conflict |-> NoTenant]]
    /\ UNCHANGED <<quotes, customers>>
    /\ CreateUnchanged

\* The tenant holding the quote number that an INSERT collides with.
Holder(number) == (CHOOSE q \in quotes : q.quote_number = number).tenant_id

\* The rest of the handler: the INSERT (flush) and the commit, or the
\* IntegrityError, the rollback and the 500.  create_quote prices the quote,
\* submit_quote does not, and creates the customer it does not find.
CreateCommit(p) ==
    /\ creq[p].pc = "generated"
    /\ LET r == creq[p]
           tot == IF r.kind = "staff"
                  THEN StoredTotals(CalculateQuotePricing({}, 0, RuleById(r.rule)))
                  ELSE ZeroTotals
       IN IF UniqueViolation(r.number)
          THEN /\ creq' = [creq EXCEPT ![p].pc = "failed",
                                       ![p].conflict = Holder(r.number)]
               /\ UNCHANGED <<quotes, customers>>
          ELSE /\ quotes' = quotes \cup
                     {NewQuote(NewQuoteId, r.tenant, r.number, 0, r.rule, tot)}
               /\ customers' = IF r.kind = "public"
                               THEN customers \cup {<<r.tenant, Email>>}
                               ELSE customers
               /\ Ended(p, "created")
    /\ UNCHANGED rate
    /\ CreateUnchanged

(***************************************************************************)
(* The quote handlers, each run from the request to its answer with        *)
(* nothing interleaved (routes/quotes.py, routes/public.py,                *)
(* routes/admin.py).                                                       *)
(***************************************************************************)
MainUnchanged == UNCHANGED <<catalog, ireq, hour, creq, preq, rlreq, rlog>>

\* Quote.query.filter_by(id=quote_id, tenant_id=request.tenant.id)
QuoteByIdAny(t, id) == {q \in quotes : q.id = id}

QuoteById(t, id) == {q \in quotes : q.id = id /\ q.tenant_id = t}

TheQuote(t, id) == CHOOSE q \in QuoteById(t, id) : TRUE

\* quote.quote_items
ItemsOf(its, qid) == {i \in its : i.quote_id = qid}

\* if quote.pricing_rule: quote = calculate_quote_pricing(quote, quote.pricing_rule)
Reprice(q, its) ==
    IF HasRule(q.pricing_rule_id)
    THEN WithTotals(q, StoredTotals(CalculateQuotePricing(
                           ItemsOf(its, q.id), q.distance_miles, RuleById(q.pricing_rule_id))))
    ELSE q

FreeItemIds(its) == (1..MaxItems) \ {i.id : i \in its}
NewItemId(its) == CHOOSE n \in FreeItemIds(its) : \A m \in FreeItemIds(its) : n <= m

NoJob == 0

\* QuoteItem(...) of create_quote and add_quote_item, before the catalog match.
NewItem(id, qid, data) ==
    [id |-> id, quote_id |-> qid, item_catalog_id |-> Null,
     detected_name |-> data.detected_name, quantity |-> data.quantity,
     cubic_feet |-> data.cubic_feet, labor_hours |-> data.labor_hours,
     unit_price |-> data.unit_price, total_price |-> data.total_price,
     confidence_score |-> Null, job |-> NoJob]

WithCatalog(item, cid, rename) ==
    IF cid = Null THEN item
    ELSE [item EXCEPT !.item_catalog_id = cid,
                      !.detected_name = IF rename THEN CatalogRow(cid).name ELSE @,
                      !.cubic_feet = CatalogRow(cid).base_cubic_feet,
                      !.labor_hours = CatalogLaborHours(CatalogRow(cid))]

\* The item rows create_quote adds for data['items'].
RECURSIVE CreatedItems(_, _, _, _, _)
CreatedItems(its, t, qid, payload, k) ==
    IF k > Len(payload) THEN its
    ELSE CreatedItems(
             its \cup {WithCatalog(NewItem(NewItemId(its), qid, payload[k]),
                                   FirstByAlias(t, Lower(payload[k].detected_name)),
                                   FALSE)},
             t, qid, payload, k + 1)

ItemData(name, quantity, cubic_feet, labor_hours) ==
    [detected_name |-> name, quantity |-> quantity, cubic_feet |-> cubic_feet,
     labor_hours |-> labor_hours, unit_price |-> 0, total_price |-> 0,
     catalog_item_id |-> Null]

CreatePayloads == { <<>>, <<ItemData(Couch, 2, 100, 10)>> }
Distances == {0}

\* create_quote
CreateQuote(t, distance, payload) ==
    /\ Cardinality(quotes) < MaxQuotes
    /\ Cardinality(items) + Len(payload) <= MaxItems
    /\ IF DefaultRules(t) = {}
       THEN /\ resp' = Answer(400, "No default pricing rule found")
            /\ UNCHANGED <<quotes, items>>
       ELSE LET number == GenerateQuoteNumber(t)
                rule == CHOOSE r \in DefaultRules(t) : TRUE
                id == NewQuoteId
                its == CreatedItems(items, t, id, payload, 1)
                quote == NewQuote(id, t, number, distance, rule.id, ZeroTotals)
            IN IF UniqueViolation(number)
               THEN /\ resp' = Answer(500, "Failed to create quote")
                    /\ UNCHANGED <<quotes, items>>
               ELSE /\ quotes' = quotes \cup
                          {WithTotals(quote, StoredTotals(CalculateQuotePricing(
                                          ItemsOf(its, id), distance, rule)))}
                    /\ items' = its
                    /\ resp' = Answer(201, "")
    /\ UNCHANGED <<clock, media, jobs, customers, rules, rate, dreq>>
    /\ MainUnchanged

WidgetIp == "::1"

\* The requests the rate_limits rows count, all keys together.
RECURSIVE RequestCount(_)
RequestCount(table) ==
    IF table = {} THEN 0
    ELSE LET row == CHOOSE r \in table : TRUE
         IN row.request_count + RequestCount(table \ {row})

FreeMediaIds == (1..MaxQuotes) \ {m.id : m \in media}
NewMediaId == CHOOSE n \in FreeMediaIds : \A m \in FreeMediaIds : n <= m

\* submit_quote: the handler prices nothing, the totals keep their column
\* defaults.  A request carries no file or one file that uploads.
SubmitQuote(slug, fieldsOk, nfiles) ==
    /\ Cardinality(quotes) < MaxQuotes
    /\ IF slug = NoTenant
       THEN /\ resp' = Answer(404, "Tenant not found")
            /\ UNCHANGED <<quotes, media, customers, rate>>
       ELSE /\ RequestCount(rate) < MaxSubmits
            /\ rate' = RlCallTable(rate, slug, WidgetIp, PublicQuote, WindowStart)
            /\ LET number == GenerateQuoteNumber(slug)
                   id == NewQuoteId
               IN IF ~RlCallAllowed(rate, slug, WidgetIp, PublicQuote, WindowStart)
                  THEN /\ resp' = Answer(429, "Rate limit exceeded")
                       /\ UNCHANGED <<quotes, media, customers>>
                  ELSE IF ~fieldsOk
                  THEN /\ resp' = Answer(400, "Missing required field")
                       /\ UNCHANGED <<quotes, media, customers>>
                  ELSE IF DefaultRules(slug) = {}
                  THEN /\ resp' = Answer(503,
                                         "Service temporarily unavailable")
                       /\ UNCHANGED <<quotes, media, customers>>
                  ELSE IF UniqueViolation(number)
                  THEN /\ resp' = Answer(500, "Failed to submit quote")
                       /\ UNCHANGED <<quotes, media, customers>>
                  ELSE /\ quotes' = quotes \cup
                             {NewQuote(id, slug, number, 0,
                                       (CHOOSE r \in DefaultRules(slug) : TRUE).id, ZeroTotals)}
                       /\ customers' = customers \cup {<<slug, Email>>}
                       /\ media' = IF nfiles = 0 THEN media
                                   ELSE media \cup {[id |-> NewMediaId, quote_id |-> id]}
                       /\ resp' = Answer(201, "")
    /\ UNCHANGED <<clock, items, jobs, rules, dreq>>
    /\ MainUnchanged

QuoteNotFound == "Quote not found"
ItemNotFound == "Quote item not found"

\* get_quote
GetQuote(t, id) ==
    /\ resp' = IF QuoteById(t, id) = {}
               THEN Answer(404, QuoteNotFound)
               ELSE Answer(200, "")
    /\ UNCHANGED <<clock, quotes, items, media, jobs, customers, rules, rate, dreq>>
    /\ MainUnchanged

AnyStatus == {"pending", "approved", "rejected", "expired", "completed", "Approved"}
AllowedStatuses == {"pending", "approved", "rejected", "expired"}

\* The fields update_quote assigns from the request.
Updated(q, field, value) ==
    IF field = "distance_miles" THEN [q EXCEPT !.distance_miles = value]
    ELSE IF field = "status" /\ value \in AllowedStatuses THEN [q EXCEPT !.status = value]
    ELSE q

\* update_quote
UpdateQuote(t, id, field, value) ==
    /\ IF QuoteById(t, id) = {}
       THEN /\ resp' = Answer(404, QuoteNotFound)
            /\ UNCHANGED quotes
       ELSE /\ quotes' = (quotes \ {TheQuote(t, id)}) \cup
                             {Reprice(Updated(TheQuote(t, id), field, value), items)}
            /\ resp' = Answer(200, "")
    /\ UNCHANGED <<clock, items, media, jobs, customers, rules, rate, dreq>>
    /\ MainUnchanged

AddPayloads ==
    { ItemData(Box, 1, 100, 10),
      [ItemData(Box, 2, 0, 0) EXCEPT !.catalog_item_id = 1] }

\* add_quote_item
AddQuoteItem(t, id, data) ==
    /\ Cardinality(items) < MaxItems
    /\ IF QuoteById(t, id) = {}
       THEN /\ resp' = Answer(404, QuoteNotFound)
            /\ UNCHANGED <<quotes, items>>
       ELSE LET cid == IF Truthy(data.catalog_item_id)
                       THEN CatalogById(t, data.catalog_item_id) ELSE Null
                its == items \cup {WithCatalog(NewItem(NewItemId(items), id, data), cid, TRUE)}
            IN /\ items' = its
               /\ quotes' = (quotes \ {TheQuote(t, id)}) \cup {Reprice(TheQuote(t, id), its)}
               /\ resp' = Answer(201, "")
    /\ UNCHANGED <<clock, media, jobs, customers, rules, rate, dreq>>
    /\ MainUnchanged

\* QuoteItem.query.filter_by(id=item_id, quote_id=quote.id)
ItemById(id, qid) == {i \in items : i.id = id /\ i.quote_id = qid}

\* remove_quote_item
RemoveQuoteItem(t, id, item_id) ==
    /\ IF QuoteById(t, id) = {}
       THEN /\ resp' = Answer(404, QuoteNotFound)
            /\ UNCHANGED <<quotes, items>>
       ELSE IF ItemById(item_id, id) = {}
       THEN /\ resp' = Answer(404, ItemNotFound)
            /\ UNCHANGED <<quotes, items>>
       ELSE LET its == items \ ItemById(item_id, id)
            IN /\ items' = its
               /\ quotes' = (quotes \ {TheQuote(t, id)}) \cup {Reprice(TheQuote(t, id), its)}
               /\ resp' = Answer(200, "")
    /\ UNCHANGED <<clock, media, jobs, customers, rules, rate, dreq>>
    /\ MainUnchanged

\* recalculate_quote
RecalculateQuote(t, id) ==
    /\ IF QuoteById(t, id) = {}
       THEN /\ resp' = Answer(404, QuoteNotFound)
            /\ UNCHANGED quotes
       ELSE IF ~HasRule(TheQuote(t, id).pricing_rule_id)
       THEN /\ resp' = Answer(400,
                              "No pricing rule associated with quote")
            /\ UNCHANGED quotes
       ELSE /\ quotes' = (quotes \ {TheQuote(t, id)}) \cup {Reprice(TheQuote(t, id), items)}
            /\ resp' = Answer(200, "")
    /\ UNCHANGED <<clock, items, media, jobs, customers, rules, rate, dreq>>
    /\ MainUnchanged

\* PricingRule.query.filter_by(id=rule_id, tenant_id=request.tenant.id)
RuleOf(t, id) == {r \in rules : r.id = id /\ r.tenant_id = t}

CubicFootRates == {100}

\* update_pricing_rule with data = {'rate_per_cubic_foot': value}: the rule
\* changes, the quotes that use it are not touched.
UpdatePricingRule(t, id, value) ==
    /\ IF RuleOf(t, id) = {}
       THEN /\ resp' = Answer(404, "Pricing rule not found")
            /\ UNCHANGED rules
       ELSE /\ rules' = (rules \ RuleOf(t, id)) \cup
                            {[r EXCEPT !.rate_per_cubic_foot = value] : r \in RuleOf(t, id)}
            /\ resp' = Answer(200, "")
    /\ UNCHANGED <<clock, quotes, items, media, jobs, customers, rate, dreq>>
    /\ MainUnchanged

(***************************************************************************)
(* detect_text and detect_auto (routes/detection.py).  The handler commits *)
(* the job before it calls the vision service and again after the answer,  *)
(* so other requests run in between.                                       *)
(***************************************************************************)
EmptyResults == [set |-> TRUE, mapped_items |-> <<>>]

\* job.results of a new job: null
NoResults == [set |-> FALSE, mapped_items |-> <<>>]

\* job.status at the first commit
DispatchStatusPending == "pending"

DispatchStatus == "processing"

\* create_detection_job, and the status assigned before the commit.
NewJob(id, t, qid, job_type) ==
    [id |-> id, tenant_id |-> t, quote_id |-> qid, job_type |-> job_type,
     status |-> DispatchStatus, results |-> NoResults, error_message |-> "",
     completed_at |-> Null]

DetectRequests ==
    { [job_type |-> "text", prompt |-> TRUE, auto_add |-> TRUE],
      [job_type |-> "text", prompt |-> TRUE, auto_add |-> FALSE],
      [job_type |-> "text", prompt |-> FALSE, auto_add |-> FALSE],
      [job_type |-> "auto", prompt |-> FALSE, auto_add |-> FALSE] }

\* The handler up to the call of the vision service.
DetectBegin(t, qid, data) ==
    /\ Len(dreq) < MaxJobs
    /\ IF data.job_type = "text" /\ ~data.prompt
       THEN /\ resp' = Answer(400,
                              "Detection prompt is required")
            /\ UNCHANGED <<jobs, dreq>>
       ELSE IF QuoteById(t, qid) = {}
       THEN /\ resp' = Answer(404, QuoteNotFound)
            /\ UNCHANGED <<jobs, dreq>>
       ELSE IF {m \in media : m.quote_id = qid} = {}
       THEN /\ resp' = Answer(400,
                              "No media files found for quote")
            /\ UNCHANGED <<jobs, dreq>>
       ELSE /\ jobs' = jobs \cup {NewJob(Len(dreq) + 1, t, qid, data.job_type)}
            /\ dreq' = Append(dreq, [pc |-> "calling", auto_add |-> data.auto_add])
            /\ UNCHANGED resp
    /\ UNCHANGED <<clock, quotes, items, media, customers, rules, rate>>
    /\ MainUnchanged

\* QuoteItem(...) of the auto-add loop: no labor_hours, no recalculation.
DetectedItem(id, qid, j, m) ==
    [id |-> id, quote_id |-> qid, item_catalog_id |-> m.catalog_item_id,
     detected_name |-> m.detected_name, quantity |-> m.quantity,
     cubic_feet |-> m.cubic_feet, labor_hours |-> Null,
     unit_price |-> Null, total_price |-> Null,
     confidence_score |-> m.confidence_score, job |-> j]

RECURSIVE DetectedItems(_, _, _, _, _)
DetectedItems(its, qid, j, adds, k) ==
    IF k > Len(adds) THEN its
    ELSE DetectedItems(its \cup {DetectedItem(NewItemId(its), qid, j, adds[k])},
                       qid, j, adds, k + 1)

JobById(j) == CHOOSE x \in jobs : x.id = j

TypeErrorText == "'>' not supported between instances of 'NoneType' and 'float'"
UnknownError == "Unknown error"

\* The handler from the answer of the vision service to its own answer.  An
\* exception inside the try block reaches the handler that marks the job
\* failed and commits the session as it stands.
DetectReturn(j, result) ==
    /\ j \in 1..Len(dreq)
    /\ dreq[j].pc = "calling"
    /\ LET job == JobById(j)
           mapped == MapDetectionsToCatalog(result.detections, job.tenant_id)
           adding == AddsItems(job.job_type, dreq[j].auto_add)
           adds == IF adding THEN ToAdd(mapped, Threshold(job.job_type)) ELSE <<>>
       IN /\ Cardinality(items) + Len(adds) <= MaxItems
          /\ IF result.kind = "raise"
             THEN /\ jobs' = (jobs \ {job}) \cup
                        {[job EXCEPT !.status = "failed", !.error_message = result.error]}
                  /\ UNCHANGED items
                  /\ resp' = Answer(500, "Detection failed")
             ELSE IF result.kind = "failure"
             THEN /\ jobs' = (jobs \ {job}) \cup
                        {[job EXCEPT !.status = "failed",
                                     !.error_message = IF result.error = ""
                                                       THEN UnknownError ELSE result.error]}
                  /\ UNCHANGED items
                  /\ resp' = Answer(200, "")
             ELSE IF adding /\ LoopRaises(mapped)
             THEN /\ jobs' = (jobs \ {job}) \cup
                        {[job EXCEPT !.status = "failed",
                                     !.results = [set |-> TRUE, mapped_items |-> mapped],
                                     !.completed_at = clock,
                                     !.error_message = TypeErrorText]}
                  /\ items' = DetectedItems(items, job.quote_id, j, adds, 1)
                  /\ resp' = Answer(500, "Detection failed")
             ELSE /\ jobs' = (jobs \ {job}) \cup
                        {[job EXCEPT !.status = "completed",
                                     !.results = [set |-> TRUE, mapped_items |-> mapped],
                                     !.completed_at = clock]}
                  /\ items' = DetectedItems(items, job.quote_id, j, adds, 1)
                  /\ resp' = Answer(200, "")
    /\ dreq' = [dreq EXCEPT ![j].pc = "done"]
    /\ UNCHANGED <<clock, quotes, media, customers, rules, rate>>
    /\ MainUnchanged

\* DetectionJob.query.filter_by(id=job_id, tenant_id=request.tenant.id)
JobOf(t, id) == {x \in jobs : x.id = id /\ x.tenant_id = t}

JobNotFound == "Detection job not found"

\* get_detection_job
GetDetectionJob(t, id) ==
    /\ resp' = IF JobOf(t, id) = {}
               THEN Answer(404, JobNotFound)
               ELSE Answer(200, "")
    /\ UNCHANGED <<clock, quotes, items, media, jobs, customers, rules, rate, dreq>>
    /\ MainUnchanged

QuoteIds == 1..MaxQuotes
ItemIds == 1..MaxItems
JobIds == 1..MaxJobs
UpdateFields ==
    { <<"distance_miles", 50>>, <<"status", "approved">>, <<"status", "completed">> }

Next ==
    \/ \E t \in Tenants, d \in Distances, payload \in CreatePayloads : CreateQuote(t, d, payload)
    \/ \E slug \in Tenants \cup {NoTenant}, ok \in BOOLEAN, n \in {0, 1} : SubmitQuote(slug, ok, n)
    \/ \E t \in Tenants, id \in QuoteIds : GetQuote(t, id)
    \/ \E t \in Tenants, id \in QuoteIds, u \in UpdateFields : UpdateQuote(t, id, u[1], u[2])
    \/ \E t \in Tenants, id \in QuoteIds, data \in AddPayloads : AddQuoteItem(t, id, data)
    \/ \E t \in Tenants, id \in QuoteIds, i \in ItemIds : RemoveQuoteItem(t, id, i)
    \/ \E t \in Tenants, id \in QuoteIds : RecalculateQuote(t, id)
    \/ \E t \in Tenants, id \in Tenants, v \in CubicFootRates : UpdatePricingRule(t, id, v)
    \/ \E t \in Tenants, id \in QuoteIds, data \in DetectRequests : DetectBegin(t, id, data)
    \/ \E j \in JobIds, result \in VisionResults : DetectReturn(j, result)
    \/ \E t \in Tenants, id \in JobIds : GetDetectionJob(t, id)

Spec == Init /\ [][Next]_vars

\* A tenant that has numbered quotes before the requests start: none, or
\* one numbered HighSeed in the starting month.
SeedQuotes ==
    { {},
      {NewQuote(1, 1, Prefix(0) \o ZeroPad(Digits(HighSeed), SeqWidth), 0, 1,
                StoredTotals(CalculateQuotePricing({}, 0, SampleRule(1))))} }

InitNum ==
    /\ clock = 0
    /\ hour = 0
    /\ quotes \in SeedQuotes
    /\ items = {}
    /\ media = {}
    /\ jobs = {}
    /\ customers = {}
    /\ rules = {SampleRule(t) : t \in Tenants}
    /\ catalog = Catalog
    /\ rate = {}
    /\ creq = [p \in Reqs |-> IdleCreate]
    /\ dreq = <<>>
    /\ preq = [p \in RuleReqs |-> IdleRule]
    /\ ireq = [p \in ItemReqs |-> IdleItem]
    /\ resp = NoAnswer
    /\ rlreq = [c \in Calls |-> IdleCall]
    /\ rlog = <<>>

NextNum ==
    \/ TickMonth
    \/ \E p \in Reqs, t \in Tenants : StaffBegin(p, t)
    \/ \E p \in Reqs, slug \in Tenants \cup {NoTenant}, ip \in RawIps, ok \in BOOLEAN :
          PublicBegin(p, slug, ip, ok)
    \/ \E p \in Reqs : CreateCommit(p)

SpecNum == InitNum /\ [][NextNum]_vars

(***************************************************************************)
(* Claims about the quote numbers (SpecNum).                               *)
(***************************************************************************)
HasNumber(p) == creq[p].number # <<>>

\* C1: generate_quote_number never returns the same quote number to two
\* callers of the same tenant, also when the callers run concurrently.
C1_NumbersNeverRepeat ==
    \A p, q \in Reqs :
        (p # q /\ HasNumber(p) /\ HasNumber(q) /\ creq[p].tenant = creq[q].tenant)
            => creq[p].number # creq[q].number

\* C2: no two persisted quotes of one tenant carry the same quote number.
C2_UniquePerTenant ==
    \A a, b \in quotes :
        (a.tenant_id = b.tenant_id /\ a.quote_number = b.quote_number) => a = b

\* Two requests of one tenant were handed the same number; one is persisted,
\* the other was refused.
C2_Witness ==
    \E p, q \in Reqs :
        /\ creq[p].pc = "created" /\ creq[q].pc = "failed"
        /\ creq[p].tenant = creq[q].tenant
        /\ creq[p].number = creq[q].number
        /\ creq[q].conflict = creq[q].tenant

\* C10: the uniqueness of quote numbers is per tenant: a quote creation never
\* fails on a quote number that another tenant holds.
C10_NoCrossTenantConflict ==
    \A p \in Reqs :
        (creq[p].pc = "failed" /\ creq[p].conflict # NoTenant)
            => creq[p].conflict = creq[p].tenant

(***************************************************************************)
(* Claims about the rate limiter.                                          *)
(***************************************************************************)
SameKey(a, b) ==
    /\ a.tenant_id = b.tenant_id
    /\ a.nip = b.nip
    /\ a.endpoint = b.endpoint
    /\ a.window_start = b.window_start

CallEntry(c) ==
    RlEntry(rlreq[c].tenant, rlreq[c].ip, rlreq[c].endpoint, rlreq[c].window,
            rlreq[c].allowed)

AllowedCalls(c) ==
    {d \in Calls : /\ rlreq[d].pc = "returned"
                   /\ rlreq[d].allowed
                   /\ SameKey(CallEntry(d), CallEntry(c))}

\* C3 (SpecRate): for every key (tenant, normalized IP, endpoint) and window,
\* the calls that returned allowed are at most max_requests, however the
\* calls interleave.
C3_AllowedWithinMax ==
    \A c \in Calls :
        (rlreq[c].pc = "returned" /\ ValidIp(rlreq[c].ip))
            => Cardinality(AllowedCalls(c)) <= EffectiveMax(MaxArg(rlreq[c].endpoint))

Earlier(i) == {j \in 1..(i - 1) : SameKey(rlog[j], rlog[i])}

\* C4 (SpecRateSeq): of the calls made one after another for one key in one
\* window, the first max_requests are allowed and every later one is denied;
\* the count starts again in a later window.
C4_SequentialLimit ==
    \A i \in 1..Len(rlog) :
        ValidIp(rlog[i].ip) =>
            (rlog[i].allowed <=>
                Cardinality(Earlier(i)) < EffectiveMax(MaxArg(rlog[i].endpoint)))

\* A key reached its limit and was denied, and its first call of the next
\* window was allowed.
C4_Witness ==
    \E i, k \in 1..Len(rlog) :
        /\ i < k
        /\ ~rlog[i].allowed
        /\ Cardinality(Earlier(i)) = MaxRequestsArg
        /\ rlog[k].allowed
        /\ rlog[k].tenant_id = rlog[i].tenant_id
        /\ rlog[k].nip = rlog[i].nip
        /\ rlog[k].endpoint = rlog[i].endpoint
        /\ rlog[k].window_start # rlog[i].window_start
        /\ Earlier(k) = {}

(***************************************************************************)
(* create_pricing_rule, update_pricing_rule and delete_pricing_rule        *)
(* (routes/admin.py) as concurrent requests under READ COMMITTED.  The     *)
(* bulk UPDATE that unsets the tenant's defaults sees the rows committed   *)
(* when it starts, waits for the row locks of the ones it matches, and     *)
(* then changes those that still match; the request's own row is written   *)
(* and committed afterwards.                                               *)
(***************************************************************************)
RuleUnchanged ==
    UNCHANGED <<catalog, ireq, clock, hour, quotes, items, media, jobs, customers, rate,
                creq, dreq, resp, rlreq, rlog>>

\* PricingRule.query.filter_by(tenant_id=request.tenant.id, is_default=True)
DefaultIds(t) == {r.id : r \in {x \in rules : x.tenant_id = t /\ x.is_default}}

\* Rows changed by a request that has not committed yet.
LockedByOthers(p) ==
    UNION {preq[o].cleared : o \in {x \in RuleReqs \ {p} : preq[x].pc = "ready"}}

FreeRuleIds == (1..MaxRules) \ {r.id : r \in rules}
NewRuleId == CHOOSE n \in FreeRuleIds : \A m \in FreeRuleIds : n <= m

\* PricingRule(...) of create_pricing_rule
NewRule(id, t, is_default) ==
    [SampleRule(t) EXCEPT !.id = id, !.is_default = is_default]

RuleMayBegin(p) == IF p = 1 THEN TRUE ELSE preq[p - 1].pc # "idle"

RuleStarted(p, op, t, id, is_default, writes, clears) ==
    preq' = [preq EXCEPT ![p] =
                [pc |-> IF clears THEN "clearing" ELSE "ready", op |-> op,
                 tenant |-> t, id |-> id, is_default |-> is_default, writes |-> writes,
                 snap |-> IF clears THEN DefaultIds(t) ELSE {}, cleared |-> {}]]

\* create_pricing_rule up to the start of the bulk UPDATE
CreateRuleBegin(p, t, is_default) ==
    /\ preq[p].pc = "idle"
    /\ RuleMayBegin(p)
    /\ RuleStarted(p, "create", t, 0, is_default, TRUE, is_default)
    /\ UNCHANGED rules
    /\ RuleUnchanged

\* update_pricing_rule up to the start of the bulk UPDATE, with
\* data = {'is_default': is_default}.  Assigning the value the row was
\* loaded with is no change: the flush writes nothing.
UpdateRuleBegin(p, t, id, is_default) ==
    /\ preq[p].pc = "idle"
    /\ RuleMayBegin(p)
    /\ IF RuleOf(t, id) = {}
       THEN preq' = [preq EXCEPT ![p] = [IdleRule EXCEPT !.pc = "not_found", !.op = "update",
                                                         !.tenant = t, !.id = id]]
       ELSE RuleStarted(p, "update", t, id, is_default,
                        is_default # (CHOOSE r \in RuleOf(t, id) : TRUE).is_default,
                        is_default /\ ~(CHOOSE r \in RuleOf(t, id) : TRUE).is_default)
    /\ UNCHANGED rules
    /\ RuleUnchanged

\* The bulk UPDATE gets its row locks and changes the rows that still match.
RuleClear(p) ==
    /\ preq[p].pc = "clearing"
    /\ preq[p].snap \cap LockedByOthers(p) = {}
    /\ preq' = [preq EXCEPT ![p].pc = "ready",
                            ![p].cleared = preq[p].snap \cap DefaultIds(preq[p].tenant)]
    /\ UNCHANGED rules
    /\ RuleUnchanged

Cleared(table, ids) ==
    {IF r.id \in ids THEN [r EXCEPT !.is_default = FALSE] ELSE r : r \in table}

\* The rest of the handler: the request's own row and the commit.
RuleCommit(p) ==
    /\ preq[p].pc = "ready"
    /\ LET r == preq[p]
       IN IF r.op = "create"
          THEN /\ FreeRuleIds # {}
               /\ rules' = Cleared(rules, r.cleared) \cup
                               {NewRule(NewRuleId, r.tenant, r.is_default)}
               /\ preq' = [preq EXCEPT ![p].pc = "done", ![p].id = NewRuleId]
          ELSE IF ~r.writes
          THEN /\ rules' = Cleared(rules, r.cleared)
               /\ preq' = [preq EXCEPT ![p].pc = "done"]
          ELSE /\ r.id \notin LockedByOthers(p)
               /\ IF RuleOf(r.tenant, r.id) = {}
                  THEN /\ preq' = [preq EXCEPT ![p].pc = "failed"]
                       /\ UNCHANGED rules
                  ELSE /\ rules' = {IF x.id = r.id THEN [x EXCEPT !.is_default = r.is_default]
                                    ELSE x : x \in Cleared(rules, r.cleared)}
                       /\ preq' = [preq EXCEPT ![p].pc = "done"]
    /\ RuleUnchanged

\* delete_pricing_rule
DeletePricingRule(t, id) ==
    /\ RuleOf(t, id) # {}
    /\ id \notin LockedByOthers(0)
    /\ \A q \in quotes : q.pricing_rule_id # id
    /\ rules' = rules \ RuleOf(t, id)
    /\ UNCHANGED preq
    /\ RuleUnchanged

NextRules ==
    \/ \E p \in RuleReqs, t \in Tenants, d \in BOOLEAN : CreateRuleBegin(p, t, d)
    \/ \E p \in RuleReqs, t \in Tenants, id \in 1..MaxRules, d \in BOOLEAN :
          UpdateRuleBegin(p, t, id, d)
    \/ \E p \in RuleReqs : RuleClear(p)
    \/ \E p \in RuleReqs : RuleCommit(p)
    \/ \E t \in Tenants, id \in 1..MaxRules : DeletePricingRule(t, id)

SpecRules == Init /\ [][NextRules]_vars

\* C11: each tenant has at most one pricing rule with is_default = true,
\* whatever create, update and delete requests ran and however they
\* interleaved.
C11_AtMostOneDefault ==
    \A t \in Tenants : Cardinality(DefaultIds(t)) <= 1

(***************************************************************************)
(* calculate_quote_pricing as a function of the session's quote, its items *)
(* and the rule (SpecPrice).  Init draws the inputs; CalculatePricing is   *)
(* the bare call, which leaves the unrounded values on the session object, *)
(* RecalculateQuote the handler that commits them.                         *)
(***************************************************************************)
PricedItem(id, quantity, cubic_feet, labor_hours, total_price) ==
    [NewItem(id, 1, ItemData(Sofa, quantity, cubic_feet, labor_hours))
        EXCEPT !.unit_price = total_price, !.total_price = total_price]

\* 2 x 50.0 cf and 2 x 2.5 h; 1 x 5.0 cf and 0.5 h; labor only; volume only
PriceItems ==
    {PricedItem(1, 2, 500, 25, 0), PricedItem(2, 1, 50, 5, 5000000),
     PricedItem(3, 3, Null, 10, Null), PricedItem(4, 1, 30, Null, 1200000)}

PriceDistances == {Null, 0, 200}

PriceRules ==
    {SampleRule(1),
     [SampleRule(1) EXCEPT !.distance_rate_per_mile = Null],
     [SampleRule(1) EXCEPT !.minimum_charge = 0],
     [SampleRule(1) EXCEPT !.rate_per_cubic_foot = 100, !.labor_rate_per_hour = 0]}

\* totals an earlier pricing may have left on the row
StaleTotals ==
    {ZeroTotals,
     [total_cubic_feet |-> 70, total_labor_hours |-> 70, subtotal |-> 7000000,
      tax_amount |-> 7000000, total_amount |-> 7000000]}

InitPrice ==
    /\ clock = 0
    /\ hour = 0
    /\ \E d \in PriceDistances, tot \in StaleTotals :
          quotes = {NewQuote(1, 1, Prefix(0) \o ZeroPad(Digits(1), SeqWidth), d, 1, tot)}
    /\ items \in SUBSET PriceItems
    /\ media = {}
    /\ jobs = {}
    /\ customers = {}
    /\ \E r \in PriceRules : rules = {r}
    /\ catalog = Catalog
    /\ rate = {}
    /\ creq = [p \in Reqs |-> IdleCreate]
    /\ dreq = <<>>
    /\ preq = [p \in RuleReqs |-> IdleRule]
    /\ ireq = [p \in ItemReqs |-> IdleItem]
    /\ resp = NoAnswer
    /\ rlreq = [c \in Calls |-> IdleCall]
    /\ rlog = <<>>

PriceQuoteWithStored(q, its, rule) ==
    LET tot == CalculateQuotePricing(ItemsOf(its, q.id), q.distance_miles, rule)
    IN WithTotals(q, [tot EXCEPT !.subtotal = @ + q.subtotal,
                                 !.total_amount = @ + q.subtotal])

\* the quote after calculate_quote_pricing(quote, rule), before any commit
PriceQuote(q, its, rule) ==
    WithTotals(q, CalculateQuotePricing(ItemsOf(its, q.id), q.distance_miles, rule))

CalculatePricing(id) ==
    /\ \E q \in {x \in quotes : x.id = id} :
          /\ HasRule(q.pricing_rule_id)
          /\ quotes' = (quotes \ {q}) \cup {PriceQuote(q, items, RuleById(q.pricing_rule_id))}
    /\ UNCHANGED <<clock, items, media, jobs, customers, rules, rate, dreq, resp>>
    /\ MainUnchanged

NextPrice ==
    \/ \E id \in QuoteIds : CalculatePricing(id)
    \/ \E t \in Tenants, id \in QuoteIds : RecalculateQuote(t, id)

SpecPrice == InitPrice /\ [][NextPrice]_vars

(***************************************************************************)
(* Claims about calculate_quote_pricing (SpecPrice).  Money is in units of *)
(* 0.00001, so 150.00 is 15000000.                                         *)
(***************************************************************************)
RECURSIVE QuantitySum(_, _)
QuantitySum(its, field) ==
    IF its = {} THEN 0
    ELSE LET i == CHOOSE x \in its : TRUE
         IN (IF i[field] # Null THEN i[field] * i.quantity ELSE 0)
            + QuantitySum(its \ {i}, field)

Present(x) == x # Null /\ x # 0

StatedCost(its, d, rule) ==
    ( QuantitySum(its, "cubic_feet") * rule.rate_per_cubic_foot
    + QuantitySum(its, "labor_hours") * rule.labor_rate_per_hour
    + (IF Present(d) /\ Present(rule.distance_rate_per_mile)
       THEN d * rule.distance_rate_per_mile ELSE 0) ) * MoneyPerCent

StatedMinimum(rule) == rule.minimum_charge * 10 * MoneyPerCent

StatedTotals(its, d, rule) ==
    LET cost == StatedCost(its, d, rule)
        subtotal == IF cost >= StatedMinimum(rule) THEN cost ELSE StatedMinimum(rule)
        tax == (subtotal \div MoneyPerCent) * 85
    IN [total_cubic_feet |-> QuantitySum(its, "cubic_feet"),
        total_labor_hours |-> QuantitySum(its, "labor_hours"),
        subtotal |-> subtotal, tax_amount |-> tax, total_amount |-> subtotal + tax]

\* 100 cubic feet, 5 labor hours, 20 miles, the sample rule
LargeExample(q) ==
    /\ ItemsOf(items, q.id) = {PricedItem(1, 2, 500, 25, 0)}
    /\ q.distance_miles = 200
    /\ rules = {SampleRule(1)}

LargeExampleTotals ==
    [total_cubic_feet |-> 1000, total_labor_hours |-> 50, subtotal |-> 132500000,
     tax_amount |-> 11262500, total_amount |-> 143762500]

\* 5 cubic feet, 0.5 labor hours, no distance, the sample rule
SmallExample(q) ==
    /\ ItemsOf(items, q.id) = {PricedItem(2, 1, 50, 5, 5000000)}
    /\ ~Present(q.distance_miles)
    /\ rules = {SampleRule(1)}

Calculated(q) ==
    CalculateQuotePricing(ItemsOf(items, q.id), q.distance_miles,
                          RuleById(q.pricing_rule_id))

\* C12: calculate_quote_pricing yields the quantity-weighted sums of cubic
\* feet and labor hours, subtotal = max(volume cost + labor cost + distance
\* cost, minimum_charge), tax = subtotal * 0.085 and total = subtotal + tax;
\* 100 cubic feet, 5 hours and 20 miles at the sample rule give 1325.00,
\* 112.625 and 1437.625.
C12_PricingFormula ==
    \A q \in quotes :
        /\ Calculated(q) = StatedTotals(ItemsOf(items, q.id), q.distance_miles,
                                        RuleById(q.pricing_rule_id))
        /\ LargeExample(q) => Calculated(q) = LargeExampleTotals

C12_Witness ==
    \E q \in quotes : LargeExample(q) /\ TotalsOf(q) = LargeExampleTotals

FloorHolds(q) ==
    LET rule == RuleById(q.pricing_rule_id)
        cost == StatedCost(ItemsOf(items, q.id), q.distance_miles, rule)
    IN /\ Calculated(q).subtotal >= StatedMinimum(rule)
       /\ cost >= StatedMinimum(rule) => Calculated(q).subtotal = cost

SmallExampleGives(q, cost) ==
    SmallExample(q) =>
        /\ StatedCost(ItemsOf(items, q.id), q.distance_miles,
                      RuleById(q.pricing_rule_id)) = cost
        /\ Calculated(q).subtotal = 15000000

\* C13: the subtotal is never below the rule's minimum_charge and equals the
\* computed cost whenever that cost is at least the minimum; 5 cubic feet and
\* 0.5 hours at the sample rule give 85.00, forced to 150.00.
C13_MinimumFloor ==
    \A q \in quotes : FloorHolds(q) /\ SmallExampleGives(q, 8500000)

\* C13 as stated: the same with a computed cost of 67.50 for the example.
C13_AsStated ==
    \A q \in quotes : FloorHolds(q) /\ SmallExampleGives(q, 6750000)

C13_Witness ==
    \E q \in quotes : SmallExample(q) /\ q.subtotal = 15000000

WithPrices(its, price) ==
    {[i EXCEPT !.unit_price = price, !.total_price = price] : i \in its}

\* C14: calculate_quote_pricing is idempotent on unchanged items, distance
\* and rule, and neither the totals already on the quote nor the items' unit
\* and total prices are an input of it.
C14_Idempotent ==
    \A q \in quotes :
        LET rule == RuleById(q.pricing_rule_id)
            once == PriceQuote(q, items, rule)
        IN /\ PriceQuote(once, items, rule) = once
           /\ \A tot \in StaleTotals, price \in {Null, 0, 990000} :
                 PriceQuote(WithTotals(q, tot), WithPrices(items, price), rule) = once

C14_Witness ==
    \E q \in quotes :
        /\ q = PriceQuote(q, items, RuleById(q.pricing_rule_id))
        /\ q.subtotal > 0
        /\ \E i \in ItemsOf(items, q.id) : Present(i.total_price)

(***************************************************************************)
(* Claims about quotes, pricing, detection jobs and tenant isolation       *)
(* (Spec).                                                                 *)
(***************************************************************************)
Expected(q) ==
    StoredTotals(CalculateQuotePricing(ItemsOf(items, q.id), q.distance_miles,
                                       RuleById(q.pricing_rule_id)))

\* C5: in every committed state, each quote's stored totals equal what the
\* pricing calculator yields for the quote's current line items, distance
\* and pricing rule.
C5_TotalsMatchCalculator ==
    \A q \in quotes : HasRule(q.pricing_rule_id) => TotalsOf(q) = Expected(q)

Terminal(status) == status \in {"completed", "failed"}

\* C6: completed_at of a detection job is set if and only if the job's
\* status is completed or failed.
C6_CompletedAtIffTerminal ==
    \A j \in jobs : (j.completed_at # Null) <=> Terminal(j.status)

JobItems(its, j) == {i \in its : i.job = j}
Before(n) == CHOOSE o \in jobs : o.id = n.id

\* C7: a detection job's status moves only along pending -> processing ->
\* {completed, failed}; a completed or failed job keeps its status, results
\* and error message, and no further line item is added on its behalf.
C7_JobStateMachine ==
    [][\A n \in jobs' :
          IF \E o \in jobs : o.id = n.id
          THEN /\ Before(n).status = "pending" => n.status \in {"pending", "processing"}
               /\ Before(n).status = "processing"
                     => n.status \in {"processing", "completed", "failed"}
               /\ Terminal(Before(n).status)
                     => /\ n.status = Before(n).status
                        /\ n.results = Before(n).results
                        /\ n.error_message = Before(n).error_message
                        /\ JobItems(items', n.id) \subseteq JobItems(items, n.id)
          ELSE n.status \in {"pending", "processing"}]_vars

\* A job went from processing to completed and added a line item, and a
\* later request was answered.
C7_Witness ==
    \E j \in jobs :
        /\ j.status = "completed"
        /\ JobItems(items, j.id) # {}
        /\ resp = Answer(200, "")
        /\ \E q \in quotes : q.status = "approved"

\* C8: a detection job that ended failed has no line item persisted on its
\* quote.
C8_FailedJobHasNoItems ==
    \A j \in jobs : j.status = "failed" => JobItems(items, j.id) = {}

Tables == <<quotes, items, media, jobs, customers, rules, rate>>

ForeignQuote(t, id) == \E q \in quotes : q.id = id /\ q.tenant_id # t
MissingQuote(id) == \A q \in quotes : q.id # id
ForeignItem(t, i) ==
    \E it \in items : it.id = i /\ ForeignQuote(t, it.quote_id)
ForeignJob(t, id) == \E j \in jobs : j.id = id /\ j.tenant_id # t
MissingJob(id) == \A j \in jobs : j.id # id

\* One of the five quote handlers, run by tenant t on quote id.
QuoteRequest(t, id) ==
    \/ GetQuote(t, id)
    \/ \E u \in UpdateFields : UpdateQuote(t, id, u[1], u[2])
    \/ \E data \in AddPayloads : AddQuoteItem(t, id, data)
    \/ \E i \in ItemIds : RemoveQuoteItem(t, id, i)
    \/ RecalculateQuote(t, id)

\* C9: get_quote, update_quote, add_quote_item, remove_quote_item,
\* recalculate_quote and get_detection_job answer a request for another
\* tenant's row with not-found, as they answer a request for an id that does
\* not exist, and change no table.
C9_CrossTenantNotFound ==
    [][/\ \A t \in Tenants, id \in QuoteIds :
             ((ForeignQuote(t, id) \/ MissingQuote(id)) /\ QuoteRequest(t, id))
                 => (resp' = Answer(404, QuoteNotFound) /\ UNCHANGED Tables)
       /\ \A t \in Tenants, id \in QuoteIds, i \in ItemIds :
             (ForeignItem(t, i) /\ RemoveQuoteItem(t, id, i))
                 => (resp'.code = 404 /\ UNCHANGED Tables)
       /\ \A t \in Tenants, id \in JobIds :
             ((ForeignJob(t, id) \/ MissingJob(id)) /\ GetDetectionJob(t, id))
                 => (resp' = Answer(404, JobNotFound) /\ UNCHANGED Tables)]_vars

\* Each tenant holds a quote, so every quote id exists, and the one
\* detection request is over, so no detection request can start: the answer
\* "Quote not found" is that of a quote handler asked for the other tenant's
\* quote, on which a line item stands.
C9_Witness ==
    /\ {q.tenant_id : q \in quotes} = Tenants
    /\ {q.id : q \in quotes} = QuoteIds
    /\ items # {}
    /\ Len(dreq) = MaxJobs
    /\ \A j \in 1..Len(dreq) : dreq[j].pc = "done"
    /\ resp = Answer(404, QuoteNotFound)

(***************************************************************************)
(* map_detections_to_catalog and the auto-add loop over catalogs of any    *)
(* content and row order (SpecMatch): a detection request on tenant 1's    *)
(* quote, answered by the vision service with one labelled detection.      *)
(***************************************************************************)
CatalogEntry(id, t, name, aliases, cubic_feet) ==
    [id |-> id, tenant_id |-> t, name |-> name, aliases |-> aliases,
     category |-> "Furniture", base_cubic_feet |-> cubic_feet, labor_multiplier |-> 10,
     is_active |-> TRUE]

Sectional == <<"S", "e", "c", "t", "i", "o", "n", "a", "l">>
CouchBox == <<"c", "o", "u", "c", "h", " ", "b", "o", "x">>

MatchEntries ==
    {CatalogEntry(1, 1, Sofa, <<Couch, Sectional>>, 350),
     CatalogEntry(2, 1, Couch, <<>>, 300),
     CatalogEntry(3, 1, Box, <<CouchBox>>, 30),
     CatalogEntry(4, 2, Table, <<LowCouch>>, 200)}

\* every subset of the entries in every row order
MatchCatalogs ==
    {c \in UNION {[1..n -> MatchEntries] : n \in 0..Cardinality(MatchEntries)} :
        \A i, j \in 1..Len(c) : i # j => c[i] # c[j]}

MatchLabels ==
    {LowCouch, Couch, Sofa, Sectional, Box, <<"o", "u", "c", "h">>,
     <<"l", "a", "m", "p">>, <<>>, <<" ">>}

MatchResults ==
    {[kind |-> "success", detections |-> <<Det(label, confidence, 1)>>, error |-> ""] :
        label \in MatchLabels, confidence \in {75, 90}}

InitMatch ==
    /\ clock = 0
    /\ hour = 0
    /\ quotes = {NewQuote(1, 1, Prefix(0) \o ZeroPad(Digits(1), SeqWidth), 0, 1,
                          StoredTotals(CalculateQuotePricing({}, 0, SampleRule(1))))}
    /\ items = {}
    /\ catalog \in MatchCatalogs
    /\ media = {[id |-> 1, quote_id |-> 1]}
    /\ jobs = {}
    /\ customers = {}
    /\ rules = {SampleRule(t) : t \in Tenants}
    /\ rate = {}
    /\ creq = [p \in Reqs |-> IdleCreate]
    /\ dreq = <<>>
    /\ preq = [p \in RuleReqs |-> IdleRule]
    /\ ireq = [p \in ItemReqs |-> IdleItem]
    /\ resp = NoAnswer
    /\ rlreq = [c \in Calls |-> IdleCall]
    /\ rlog = <<>>

NextMatch ==
    \/ \E t \in Tenants, qid \in QuoteIds, data \in DetectRequests : DetectBegin(t, qid, data)
    \/ \E j \in JobIds, result \in MatchResults : DetectReturn(j, result)

SpecMatch == InitMatch /\ [][NextMatch]_vars

(***************************************************************************)
(* Claims about the catalog matcher and auto-add (SpecMatch).              *)
(***************************************************************************)
LowerCase(s) ==
    [i \in 1..Len(s) |->
        CASE s[i] = "S" -> "s" [] s[i] = "C" -> "c" [] s[i] = "B" -> "b"
          [] s[i] = "T" -> "t" [] OTHER -> s[i]]

Infix(a, b) == \E i \in 1..(Len(b) + 1), j \in 0..Len(b) : SubSeq(b, i, j) = a

\* the weight the stated rules give one entry for one label, in hundredths
StatedWeight(entry, label) ==
    LET l == LowerCase(label)
        al == {LowerCase(entry.aliases[k]) : k \in 1..Len(entry.aliases)}
    IN IF LowerCase(entry.name) = l THEN 100
       ELSE IF l \in al THEN 90
       ELSE IF \E a \in al : Infix(a, l) \/ Infix(l, a) THEN 70
       ELSE 0

ActiveEntries(t) ==
    {catalog[i] : i \in {k \in 1..Len(catalog) :
                            catalog[k].tenant_id = t /\ catalog[k].is_active}}

HighestWeight(t, label) ==
    IF ActiveEntries(t) = {} THEN 0
    ELSE LET ws == {StatedWeight(e, label) : e \in ActiveEntries(t)}
         IN CHOOSE w \in ws : \A v \in ws : v <= w

\* the mapped items a job stored, with the job's tenant
StoredMapped ==
    UNION {{<<job.tenant_id, job.results.mapped_items[k]>> :
               k \in 1..Len(job.results.mapped_items)} :
           job \in {x \in jobs : x.results.set}}

ReturnsBest(t, m) ==
    LET best == HighestWeight(t, m.detected_name)
    IN /\ BestMatch(t, m.detected_name).score = best
       /\ IF best = 0
          THEN m.catalog_item_id = Null /\ m.cubic_feet = Null /\ m.category = "Unknown"
          ELSE /\ \E e \in ActiveEntries(t) :
                     /\ e.id = m.catalog_item_id
                     /\ StatedWeight(e, m.detected_name) = best
                     /\ m.cubic_feet = e.base_cubic_feet

CouchExample(t, m) ==
    /\ m.detected_name = LowCouch
    /\ CatalogEntry(1, 1, Sofa, <<Couch, Sectional>>, 350) \in ActiveEntries(t)
    /\ CatalogEntry(2, 1, Couch, <<>>, 300) \notin ActiveEntries(t)

\* C15: for a non-empty label the matcher compares case-insensitively, gives
\* an entry weight 1.0 for a name equal to the label, 0.9 for an equal alias,
\* 0.7 for an alias containing or contained in the label, and returns an
\* entry of the highest weight over the tenant's whole catalog in any row
\* order, or none when no entry qualifies; "couch" against Sofa with aliases
\* Couch, Sectional returns Sofa with weight 0.9 and Sofa's base cubic feet.
C15_BestWeightWins ==
    \A tm \in StoredMapped :
        tm[2].detected_name # <<>> =>
            /\ ReturnsBest(tm[1], tm[2])
            /\ CouchExample(tm[1], tm[2]) =>
                  /\ tm[2].catalog_item_id = 1
                  /\ BestMatch(tm[1], tm[2].detected_name).score = 90
                  /\ tm[2].cubic_feet = 350

\* a substring match in an earlier row, the alias match in a later one
C15_Witness ==
    \E tm \in StoredMapped :
        /\ CouchExample(tm[1], tm[2])
        /\ Len(catalog) >= 2 /\ catalog[1].id = 3
        /\ tm[2].catalog_item_id = 1

Blank(s) == \A i \in 1..Len(s) : s[i] = " "

\* C16: a detection whose label is empty or blank gets no match: no catalog
\* entry id and category "Unknown", whatever the catalog contains.
C16_BlankLabelNoMatch ==
    \A tm \in StoredMapped :
        Blank(tm[2].detected_name) =>
            tm[2].catalog_item_id = Null /\ tm[2].category = "Unknown"

\* the mapped items of job j that the stated policy adds
StatedAdds(job) ==
    {k \in 1..Len(job.results.mapped_items) :
        LET m == job.results.mapped_items[k]
        IN /\ m.catalog_item_id # Null
           /\ BestMatch(job.tenant_id, m.detected_name).score > Threshold(job.job_type)}

\* C17: when a job completes with auto-add in effect, the line items added
\* are exactly the mapped items with a catalog match whose match weight is
\* strictly above the threshold (0.7 text, 0.8 automatic).
C17_AddsByMatchWeight ==
    \A j \in 1..Len(dreq) :
        (/\ dreq[j].pc = "done"
         /\ JobById(j).status = "completed"
         /\ AddsItems(JobById(j).job_type, dreq[j].auto_add))
        => Cardinality(JobItems(items, j)) = Cardinality(StatedAdds(JobById(j)))

(***************************************************************************)
(* Claims about failures inside check_rate_limit (SpecRateFail).           *)
(***************************************************************************)
InsertCollides(c) ==
    /\ rlreq[c].snap = 0
    /\ RlUniqueViolation(rate, rlreq[c].tenant, NormalizeIp(rlreq[c].ip),
                         rlreq[c].endpoint, rlreq[c].window)

\* the steps of call c in which something inside check_rate_limit fails
FailingStep(c) ==
    \/ \E t \in Tenants, ip \in RawIps, ep \in Endpoints :
          \/ RlRead(c, t, ip, ep) /\ ~ValidIp(ip)
          \/ RlQueryFails(c, t, ip, ep)
    \/ RlWrite(c) /\ InsertCollides(c)
    \/ RlCommitFails(c)

NoneInFlight(p) == \A o \in Reqs \ {p} : creq[o].pc # "generated"

SequenceOf(q) ==
    ParseInt(SubSeq(q.quote_number, Len(Prefix(clock)) + 1, Len(q.quote_number)))

\* the numerically highest sequence of tenant t in the current month, or 0
HighestSequence(t) ==
    IF NumberedRows(t, Prefix(clock)) = {} THEN 0
    ELSE LET ns == {SequenceOf(q) : q \in NumberedRows(t, Prefix(clock))}
         IN CHOOSE n \in ns : \A m \in ns : m <= n

StatedNumber(t) == Prefix(clock) \o ZeroPad(Digits(HighestSequence(t) + 1), SeqWidth)

\* C18: in sequential use generate_quote_number returns the year-month
\* prefix followed by one more than the numerically highest sequence of the
\* tenant's numbers with that prefix (1 when there is none), in at least four
\* digits, also past 9999 and in a new month.
C18_NextInSequence ==
    [][\A p \in Reqs, t \in Tenants :
          (StaffBegin(p, t) /\ NoneInFlight(p) /\ DefaultRules(t) # {})
          => creq'[p].number = StatedNumber(t)]_vars

\* C20: a creation whose number collides draws a new number from a fresh
\* read and tries again: it does not end in failure while that fresh number
\* is free and no other creation is in flight.
C20_RetriesOnCollision ==
    [][\A p \in Reqs :
          (/\ CreateCommit(p)
           /\ UniqueViolation(creq[p].number)
           /\ NoneInFlight(p)
           /\ ~UniqueViolation(GenerateQuoteNumber(creq[p].tenant)))
          => creq'[p].pc # "failed"]_vars

(***************************************************************************)
(* add_quote_item and remove_quote_item as concurrent transactions at      *)
(* READ COMMITTED (SpecItems).  A request reads the quote, flushes its own *)
(* INSERT or DELETE, loads quote.quote_items (the committed rows and its   *)
(* own change) and computes the totals; its commit writes the item change  *)
(* and the total columns it changed.                                       *)
(***************************************************************************)
ItemUnchanged ==
    UNCHANGED <<clock, hour, media, jobs, customers, rules, catalog, rate,
                creq, dreq, preq, resp, rlreq, rlog>>

ItemMayBegin(p) == IF p = 1 THEN TRUE ELSE ireq[p - 1].pc # "idle"

\* rows flushed by requests that have not committed yet
FlushedRows == UNION {ireq[p].row : p \in {x \in ItemReqs : ireq[x].pc = "ready"}}

UnusedItemIds == (1..MaxItemIds) \ {i.id : i \in items \cup FlushedRows}
FreshItemId == CHOOSE n \in UnusedItemIds : \A m \in UnusedItemIds : n <= m

\* the DELETE of another request holds the row's lock
DeleteLocked(p, item_id) ==
    \E o \in ItemReqs \ {p} :
        ireq[o].pc = "ready" /\ ireq[o].op = "remove" /\ ireq[o].item = item_id

ItemEnded(p) == ireq' = [ireq EXCEPT ![p].pc = "ended"]

\* calculate_quote_pricing on the rows the session sees
SessionTotals(q, seen) ==
    IF HasRule(q.pricing_rule_id)
    THEN CalculateQuotePricing(seen, q.distance_miles, RuleById(q.pricing_rule_id))
    ELSE TotalsOf(q)

AddItemBegin(p, t, id, data) ==
    /\ ireq[p].pc = "idle"
    /\ ItemMayBegin(p)
    /\ UnusedItemIds # {}
    /\ IF QuoteById(t, id) = {}
       THEN ItemEnded(p)
       ELSE LET q == TheQuote(t, id)
                cid == IF Truthy(data.catalog_item_id)
                       THEN CatalogById(t, data.catalog_item_id) ELSE Null
                new == WithCatalog(NewItem(FreshItemId, id, data), cid, TRUE)
            IN ireq' = [ireq EXCEPT ![p] =
                          [pc |-> "ready", op |-> "add", quote |-> id,
                           loaded |-> TotalsOf(q),
                           totals |-> SessionTotals(q, ItemsOf(items, id) \cup {new}),
                           item |-> new.id, row |-> {new}]]
    /\ UNCHANGED <<quotes, items>>
    /\ ItemUnchanged

RemoveItemBegin(p, t, id, item_id) ==
    /\ ireq[p].pc = "idle"
    /\ ItemMayBegin(p)
    /\ IF QuoteById(t, id) = {} \/ ItemById(item_id, id) = {}
       THEN ItemEnded(p)
       ELSE LET q == TheQuote(t, id)
            IN ireq' = [ireq EXCEPT ![p] =
                          [pc |-> IF DeleteLocked(p, item_id) THEN "blocked" ELSE "ready",
                           op |-> "remove", quote |-> id,
                           loaded |-> TotalsOf(q),
                           totals |-> SessionTotals(q, ItemsOf(items, id) \ ItemById(item_id, id)),
                           item |-> item_id, row |-> {}]]
    /\ UNCHANGED <<quotes, items>>
    /\ ItemUnchanged

\* UPDATE quotes SET <the columns whose value differs from the loaded one>
WrittenTotals(q, loaded, totals) ==
    [f \in DOMAIN loaded |->
        IF totals[f] # loaded[f] THEN StoredTotals(totals)[f] ELSE TotalsOf(q)[f]]

ItemCommit(p) ==
    /\ ireq[p].pc = "ready"
    /\ LET r == ireq[p]
           q == CHOOSE x \in quotes : x.id = r.quote
       IN /\ items' = IF r.op = "add" THEN items \cup r.row
                      ELSE {i \in items : i.id # r.item}
          /\ quotes' = (quotes \ {q}) \cup {WithTotals(q, WrittenTotals(q, r.loaded, r.totals))}
    /\ ItemEnded(p)
    /\ ItemUnchanged

\* The DELETE that waited for the lock finds no row: StaleDataError, rollback.
ItemUnblock(p) ==
    /\ ireq[p].pc = "blocked"
    /\ ~DeleteLocked(p, ireq[p].item)
    /\ ItemEnded(p)
    /\ UNCHANGED <<quotes, items>>
    /\ ItemUnchanged

FirstItems == {{}, {NewItem(1, 1, ItemData(Sofa, 1, 350, 40))}}

InitItems ==
    /\ clock = 0
    /\ hour = 0
    /\ items \in FirstItems
    /\ quotes = {NewQuote(1, 1, Prefix(0) \o ZeroPad(Digits(1), SeqWidth), 0, 1,
                          StoredTotals(CalculateQuotePricing(items, 0, SampleRule(1))))}
    /\ media = {}
    /\ jobs = {}
    /\ customers = {}
    /\ rules = {SampleRule(t) : t \in Tenants}
    /\ catalog = Catalog
    /\ rate = {}
    /\ creq = [p \in Reqs |-> IdleCreate]
    /\ dreq = <<>>
    /\ preq = [p \in RuleReqs |-> IdleRule]
    /\ ireq = [p \in ItemReqs |-> IdleItem]
    /\ resp = NoAnswer
    /\ rlreq = [c \in Calls |-> IdleCall]
    /\ rlog = <<>>

NextItems ==
    \/ \E p \in ItemReqs, t \in Tenants, id \in QuoteIds, data \in AddPayloads :
          AddItemBegin(p, t, id, data)
    \/ \E p \in ItemReqs, t \in Tenants, id \in QuoteIds, item_id \in 1..MaxItemIds :
          RemoveItemBegin(p, t, id, item_id)
    \/ \E p \in ItemReqs : ItemCommit(p)
    \/ \E p \in ItemReqs : ItemUnblock(p)

SpecItems == InitItems /\ [][NextItems]_vars

\* C21: each line-item request commits its change and the recalculated
\* totals as one unit, and once no request is in flight the stored totals of
\* every quote are those of the line items then on the quote.
C21_TotalsOfCommittedItems ==
    (\A p \in ItemReqs : ireq[p].pc \in {"idle", "ended"})
    => \A q \in quotes : TotalsOf(q) = Expected(q)

(***************************************************************************)
(* Quotes under creation and update_quote (SpecQuote).                     *)
(***************************************************************************)
\* data['status'] as a request can carry it
StatusValues == {"pending", "approved", "rejected", "expired", "completed", "Approved"}

NextQuote ==
    \/ \E t \in Tenants, d \in Distances, payload \in CreatePayloads : CreateQuote(t, d, payload)
    \/ \E slug \in Tenants \cup {NoTenant}, ok \in BOOLEAN, n \in {0, 1} : SubmitQuote(slug, ok, n)
    \/ \E t \in Tenants, id \in QuoteIds, v \in StatusValues : UpdateQuote(t, id, "status", v)

SpecQuote == Init /\ [][NextQuote]_vars

StatedStatuses == {"pending", "approved", "rejected", "expired"}

StatusOf(table, id) == (CHOOSE q \in table : q.id = id).status

\* C22: a quote's status is always one of pending, approved, rejected,
\* expired; a new quote starts as pending; update_quote takes each of the
\* four values from any current status, and answers 200 to any other value
\* while leaving the status as it was.
C22_StatusValues ==
    [][/\ \A q \in quotes' : q.status \in StatedStatuses
       /\ \A q \in quotes' : (\A o \in quotes : o.id # q.id) => q.status = "pending"
       /\ \A t \in Tenants, id \in QuoteIds, v \in StatusValues :
             (UpdateQuote(t, id, "status", v) /\ QuoteById(t, id) # {})
             => /\ resp' = Answer(200, "")
                /\ StatusOf(quotes', id) = IF v \in StatedStatuses THEN v
                                           ELSE StatusOf(quotes, id)]_vars

\* both quotes have left pending, the last answer is a success
C22_Witness ==
    /\ \E q \in quotes : q.status = "expired"
    /\ \E q \in quotes : q.status = "rejected"
    /\ resp = Answer(200, "")

\* the entries of tenant t that list `name` among their aliases
EntriesWithAlias(t, name) ==
    {k \in 1..Len(catalog) :
        /\ catalog[k].tenant_id = t
        /\ \E a \in 1..Len(catalog[k].aliases) : catalog[k].aliases[a] = name}

\* C23: an item that create_quote receives with a detected name equal to an
\* alias of one of the tenant's catalog entries keeps that name, is linked
\* to such an entry and takes the entry's base cubic feet.
C23_AliasLinksEntry ==
    [][\A t \in Tenants, d \in Distances, payload \in CreatePayloads :
          (CreateQuote(t, d, payload) /\ resp' = Answer(201, ""))
          => \A k \in 1..Len(payload) :
                EntriesWithAlias(t, payload[k].detected_name) # {}
                => \E i \in items' \ items, e \in EntriesWithAlias(t, payload[k].detected_name) :
                      /\ i.detected_name = payload[k].detected_name
                      /\ i.item_catalog_id = catalog[e].id
                      /\ i.cubic_feet = catalog[e].base_cubic_feet]_vars

(***************************************************************************)
(* Further claims about detection jobs (SpecMatch).                        *)
(***************************************************************************)
\* C24: a detection job of either type that was created without the
\* auto-add flag adds no line item to its quote; when it completes, its
\* mapped items are stored on the job.
C24_NoFlagNoItems ==
    \A j \in 1..Len(dreq) :
        (dreq[j].pc = "done" /\ ~dreq[j].auto_add)
        => /\ JobItems(items, j) = {}
           /\ JobById(j).status = "completed" => JobById(j).results.set

(***************************************************************************)
(* Detection requests whose process can die during the call of the vision  *)
(* service (SpecDetect), and requests that run to their end                *)
(* (SpecDetectLive).                                                       *)
(***************************************************************************)
\* The process dies while call_yoloe_service is in flight: the request never
\* resumes and the database keeps what was committed.
Crash(j) ==
    /\ j \in 1..Len(dreq)
    /\ dreq[j].pc = "calling"
    /\ dreq' = [dreq EXCEPT ![j].pc = "crashed"]
    /\ UNCHANGED <<clock, quotes, items, media, jobs, customers, rules, rate, resp>>
    /\ MainUnchanged

NextDetect ==
    \/ \E t \in Tenants, qid \in QuoteIds, data \in DetectRequests : DetectBegin(t, qid, data)
    \/ \E j \in JobIds, result \in VisionResults : DetectReturn(j, result)
    \/ \E j \in JobIds : Crash(j)

SpecDetect == InitMatch /\ [][NextDetect]_vars

NextDetectLive ==
    \/ \E t \in Tenants, qid \in QuoteIds, data \in DetectRequests : DetectBegin(t, qid, data)
    \/ \E j \in JobIds, result \in VisionResults : DetectReturn(j, result)

\* the call returns, raises or times out, and the process keeps running
SpecDetectLive ==
    /\ InitMatch
    /\ [][NextDetectLive]_vars
    /\ WF_vars(\E j \in JobIds, result \in VisionResults : DetectReturn(j, result))

\* C25: while the call of the vision service is in flight, and after a crash
\* during it, the job is persisted with status processing and has no
\* result, no error message, no completion time and no line item.
C25_ProcessingBeforeCall ==
    \A j \in 1..Len(dreq) :
        dreq[j].pc \in {"calling", "crashed"}
        => /\ \E job \in jobs : job.id = j
           /\ JobById(j).status = "processing"
           /\ ~JobById(j).results.set
           /\ JobById(j).error_message = ""
           /\ JobById(j).completed_at = Null
           /\ JobItems(items, j) = {}

C25_Witness ==
    \E j \in 1..Len(dreq) : dreq[j].pc = "crashed" /\ JobById(j).status = "processing"

\* C26: every job that enters processing reaches completed or failed; a
\* success result leads to completed, a failure result or an error of the
\* call to failed with the error text on the job, and the request answers.
C26_JobsTerminate ==
    /\ \A j \in JobIds :
          ((\E job \in jobs : job.id = j /\ job.status = "processing")
           ~> (\E job \in jobs : job.id = j /\ job.status \in {"completed", "failed"}))
    /\ [][\A j \in JobIds, result \in VisionResults :
             DetectReturn(j, result)
             => /\ resp'.code # 0
                /\ IF result.kind = "success"
                   THEN (CHOOSE n \in jobs' : n.id = j).status = "completed"
                   ELSE /\ (CHOOSE n \in jobs' : n.id = j).status = "failed"
                        /\ (CHOOSE n \in jobs' : n.id = j).error_message # ""]_vars

(***************************************************************************)
(* Further claims about the handlers of Spec.                              *)
(***************************************************************************)
\* a public submission without tenant or without the customer's fields
RejectedSubmit ==
    \E slug \in Tenants \cup {NoTenant}, ok \in BOOLEAN, n \in {0, 1} :
        SubmitQuote(slug, ok, n) /\ (slug = NoTenant \/ ~ok)

\* a detection request without prompt or for a quote without media
RejectedDetect ==
    \E t \in Tenants, qid \in QuoteIds, data \in DetectRequests :
        /\ DetectBegin(t, qid, data)
        /\ \/ data.job_type = "text" /\ ~data.prompt
           \/ QuoteById(t, qid) # {} /\ {m \in media : m.quote_id = qid} = {}

\* C27: a request rejected with a validation error leaves every table as it
\* was: no quote, customer, job, line item or rate-limit counter is created
\* or changed.
C27_RejectedLeavesState ==
    [][(RejectedSubmit \/ RejectedDetect) => UNCHANGED Tables]_vars

(***************************************************************************)
(* check_rate_limit and the rows of other keys.                            *)
(***************************************************************************)
OwnKey(r, t, nip, ep, w) ==
    r.tenant_id = t /\ r.ip_address = nip /\ r.endpoint = ep /\ r.window_start = w

OwnRows(table, t, nip, ep, w) == {r \in table : OwnKey(r, t, nip, ep, w)}

LastAllowed == rlog'[Len(rlog')].allowed

Users ==
    { [tenant_id |-> 1, supertokens_user_id |-> "st-a1", role |-> "admin"],
      [tenant_id |-> 1, supertokens_user_id |-> "st-s1", role |-> "staff"],
      [tenant_id |-> 2, supertokens_user_id |-> "st-a2", role |-> "admin"],
      [tenant_id |-> 2, supertokens_user_id |-> "st-c2", role |-> "customer"] }

\* The user id of the verified session: "" is a request without a session,
\* "st-gone" a session whose user has no row.
Sessions == {"", "st-gone"} \cup {u.supertokens_user_id : u \in Users}

StaffRoles == {"admin", "staff"}

\* User.query.filter_by(supertokens_user_id=user_id).first()
UserBySession(sid) == {u \in Users : u.supertokens_user_id = sid}

\* The answer of the first decorator that returns; NoAnswer when all three
\* call the handler.
DecoratorAnswer(slug, sid, roles) ==
    IF slug = NoTenant THEN Answer(400, "Tenant not found or not specified")
    ELSE IF sid = "" THEN Answer(401, "Authentication required")
    ELSE IF UserBySession(sid) = {} THEN Answer(404, "User not found")
    ELSE IF (CHOOSE u \in UserBySession(sid) : TRUE).role \notin roles
    THEN Answer(403, "Insufficient permissions")
    ELSE NoAnswer

\* request.user of a request the decorators let through
RequestUser(sid) == CHOOSE u \in UserBySession(sid) : TRUE

\* A request a decorator answers: the handler does not run.
StaffRefused(slug, sid) ==
    /\ DecoratorAnswer(slug, sid, StaffRoles) # NoAnswer
    /\ resp' = DecoratorAnswer(slug, sid, StaffRoles)
    /\ UNCHANGED <<clock, quotes, items, media, jobs, customers, rules, rate, dreq>>
    /\ MainUnchanged

\* POST /quotes behind the three decorators
StaffCreateQuote(slug, sid, distance, payload) ==
    /\ DecoratorAnswer(slug, sid, StaffRoles) = NoAnswer
    /\ CreateQuote(slug, distance, payload)

\* PUT /quotes/<id> behind the three decorators
StaffUpdateQuote(slug, sid, id, value) ==
    /\ DecoratorAnswer(slug, sid, StaffRoles) = NoAnswer
    /\ UpdateQuote(slug, id, "status", value)

NextAuth ==
    \/ \E slug \in Tenants \cup {NoTenant}, sid \in Sessions : StaffRefused(slug, sid)
    \/ \E slug \in Tenants, sid \in Sessions, d \in Distances, payload \in CreatePayloads :
        StaffCreateQuote(slug, sid, d, payload)
    \/ \E slug \in Tenants, sid \in Sessions, id \in QuoteIds, v \in StatedStatuses :
        StaffUpdateQuote(slug, sid, id, v)

SpecAuth == Init /\ [][NextAuth]_vars

\* C29: a handler behind require_tenant, require_auth and require_role runs
\* with a user of the request's tenant, so the quotes a request creates or
\* changes belong to the tenant of the user who sent it.
C29_UserOfRequestTenant ==
    [][\A slug \in Tenants, sid \in Sessions :
        ((\E d \in Distances, payload \in CreatePayloads :
             StaffCreateQuote(slug, sid, d, payload))
         \/ (\E id \in QuoteIds, v \in StatedStatuses :
             StaffUpdateQuote(slug, sid, id, v)))
        => /\ RequestUser(sid).tenant_id = slug
           /\ \A q \in (quotes' \ quotes) \cup (quotes \ quotes') :
                q.tenant_id = RequestUser(sid).tenant_id]_vars

(***************************************************************************)
(* The catalog links of the line items.                                    *)
(***************************************************************************)
QuoteOf(item) == CHOOSE q \in quotes : q.id = item.quote_id

Linked == {i \in items : i.item_catalog_id # Null}

\* C30: a line item that references a catalog entry references an entry of
\* the tenant that owns the item's quote, whichever way the item was made:
\* create_quote's alias lookup, add_quote_item with a catalog_item_id, or
\* the items a detection job adds.
C30_LinkWithinTenant ==
    \A i \in Linked :
        /\ \E q \in quotes : q.id = i.quote_id
        /\ i.item_catalog_id \in CatalogIds
        /\ CatalogRow(i.item_catalog_id).tenant_id = QuoteOf(i).tenant_id

\* A quote of tenant 2 holds an item a detection job added for the label
\* Couch, linked to tenant 2's entry Table (alias couch), while tenant 1's
\* entry Sofa, earlier in the catalog, carries the alias Couch as well.
C30_Witness ==
    \E i \in Linked :
        /\ QuoteOf(i).tenant_id = 2
        /\ i.detected_name = Couch
        /\ i.confidence_score # Null
        /\ CatalogRow(i.item_catalog_id).name = Table
        /\ \E k \in 1..Len(catalog) :
            /\ catalog[k].tenant_id = 1
            /\ \E a \in 1..Len(catalog[k].aliases) : catalog[k].aliases[a] = Couch

====
